---- MODULE Spec2Model ----
(***************************************************************************)
(* Model of the VectorClock e-paper display driver (src/epaper-display.py): *)
(* the album-art cache (AlbumArtManager) and the refresh scheduler          *)
(* (DisplayRenderer).                                                       *)
(*                                                                          *)
(* Representation.  Python None is the string "None"; an empty URL is "".   *)
(* A fetched image is identified by the URL it was fetched from; a dithered *)
(* variant is the record of the image, algorithm and size it was computed   *)
(* from.  Wall-clock time is an integer number of seconds.                  *)
(***************************************************************************)
EXTENDS Integers, Sequences, FiniteSets, TLC

VARIABLES
    now,                \* the wall clock: time.time(), in seconds
    started,            \* run() has called fetch_settings
    display_mode,       \* AlbumArtManager.display_mode
    dither_algorithm,   \* AlbumArtManager.dither_algorithm
    show_album_art,     \* AlbumArtManager.show_album_art
    cached_url,         \* AlbumArtManager.cached_url
    cached_art,         \* AlbumArtManager.cached_art
    cached_dithered,    \* AlbumArtManager.cached_dithered: cache key -> variant
    epd,                \* DisplayRenderer.epd: the sink ("none" when there is no hardware)
    last_full_refresh,  \* DisplayRenderer.last_full_refresh
    current_minute,     \* DisplayRenderer.current_minute
    current_flight,     \* DisplayRenderer.current_flight
    music_mode_active,  \* DisplayRenderer.music_mode_active
    art_log,            \* history: what the last get_dithered_art call did
    art_calls,          \* history: get_dithered_art calls so far (2: two or more)
    op_log,             \* history: what the last DisplayRenderer operation did
    full_done_at,       \* history: when the last render_full push or clear() returned
    minute_sync,        \* history: the clock reading current_minute was last set from
    twin,               \* history: the refresh state of the same run on a hardware sink
    loop_log,           \* history: what the last main-loop iteration of run() did
    image,              \* the grayscale image handed to _apply_dithering
    pixels,             \* the private copy a dither function works on (img.load())
    scan,               \* the raster position of the running dither function
    px_log,             \* history: what the last dither step did to its pixel
    draw_log,           \* history: what the last region painter called on its own painted
    app,                \* VectorClockDisplay: weather, flight, special_alerts, now_playing, timing
    fetcher_weather,    \* DataFetcher.weather
    running,            \* VectorClockDisplay.running (the shutdown flag): is_set()
    run_pc,             \* where run() is
    run_log,            \* history: what the last step of run() did
    fetch_log           \* history: what the last get_flights call was given and returned

artVars == <<display_mode, dither_algorithm, show_album_art,
             cached_url, cached_art, cached_dithered>>

refreshVars == <<last_full_refresh, current_minute, current_flight, music_mode_active>>

histVars == <<op_log, full_done_at, minute_sync, twin>>

artHist == <<art_log, art_calls>>

\* The state of the main loop, of a running dither function and of the last
\* region painter; the renderer operations above the loop leave them alone.
runVars == <<app, fetcher_weather, running, run_pc, run_log>>

extVars == <<loop_log, image, pixels, scan, px_log, draw_log, runVars, fetch_log>>

vars == <<now, started, artVars, epd, refreshVars, artHist, histVars, extVars>>

----------------------------------------------------------------------------
(* Values *)

None == "None"
EmptyUrl == ""

\* The URLs a now-playing record can carry.
Urls == {"u1", "u2"}

Algorithms == {"floyd", "atkinson", "ordered"}
DisplayModes == {"thumbnail", "music"}

thumbnail_size == 50
music_mode_size == 180
Sizes == {thumbnail_size, music_mode_size}

\* What requests.get(url) followed by Image.open can do.
FetchOutcomes == {"ok", "http_error", "transport_error", "bad_image"}
\* What copy/resize/convert/dither can do on an opened image (Image.open is
\* lazy: a truncated body is only detected when the pixels are loaded).
ProcessOutcomes == {"ok", "error"}

Absent == [src |-> None, alg |-> None, size |-> 0]
Variant(art, alg, size) == [src |-> art, alg |-> alg, size |-> size]

EmptyMap == [k \in {} |-> Absent]
Put(m, k, v) == [x \in (DOMAIN m) \cup {k} |-> IF x = k THEN v ELSE m[x]]

----------------------------------------------------------------------------
(* AlbumArtManager *)

Cache == [cached_url |-> cached_url, cached_art |-> cached_art,
          cached_dithered |-> cached_dithered]

CacheKey(alg, size) == <<alg, size>>

\* get_dithered_art, the two guards: the call goes on only for a non-empty URL
\* with album art enabled.
ArtGuard_NoSettingCheck(url, show) == url # EmptyUrl /\ url # None
ArtGuard(url, show) == url # EmptyUrl /\ url # None /\ show

\* get_dithered_art, the cache check.
CacheHit_IgnoresUrl(c, url, key) == key \in DOMAIN c.cached_dithered
CacheHit(c, url, key) == url = c.cached_url /\ key \in DOMAIN c.cached_dithered

\* get_dithered_art, "Fetch new album art if URL changed": the cache after the
\* fetch step, the number of network fetches made and whether the call ends here.
FetchArt_KeepsVariants(c, url, fetch) ==
    IF url = c.cached_url
    THEN [cache |-> c, fetches |-> 0, failed |-> FALSE]
    ELSE IF fetch = "ok"
         THEN [cache |-> [cached_url |-> url, cached_art |-> url,
                          cached_dithered |-> c.cached_dithered],
               fetches |-> 1, failed |-> FALSE]
         ELSE [cache |-> c, fetches |-> 1, failed |-> TRUE]
FetchArt_RecordsUrlFirst(c, url, fetch) ==
    IF url = c.cached_url
    THEN [cache |-> c, fetches |-> 0, failed |-> FALSE]
    ELSE IF fetch = "ok"
         THEN [cache |-> [cached_url |-> url, cached_art |-> url,
                          cached_dithered |-> EmptyMap],
               fetches |-> 1, failed |-> FALSE]
         ELSE [cache |-> [c EXCEPT !.cached_url = url], fetches |-> 1, failed |-> TRUE]
FetchArt(c, url, fetch) ==
    IF url = c.cached_url
    THEN [cache |-> c, fetches |-> 0, failed |-> FALSE]
    ELSE IF fetch = "ok"
         THEN [cache |-> [cached_url |-> url, cached_art |-> url,
                          cached_dithered |-> EmptyMap],
               fetches |-> 1, failed |-> FALSE]
         ELSE \* status != 200 returns None; an exception of requests.get or
              \* Image.open is caught by the handler, which returns None
              [cache |-> c, fetches |-> 1, failed |-> TRUE]

\* get_dithered_art, resize + grayscale + dither + "Cache the result".
DitherAndStore_NoStore(c, alg, size, proc) ==
    IF proc = "ok"
    THEN [cache |-> c, result |-> Variant(c.cached_art, alg, size),
          outcome |-> "stored"]
    ELSE [cache |-> c, result |-> Absent, outcome |-> "process_failed"]
DitherAndStore(c, alg, size, proc) ==
    IF proc = "ok"
    THEN [cache |-> [c EXCEPT !.cached_dithered =
                        Put(c.cached_dithered, CacheKey(alg, size),
                            Variant(c.cached_art, alg, size))],
          result |-> Variant(c.cached_art, alg, size), outcome |-> "stored"]
    ELSE [cache |-> c, result |-> Absent, outcome |-> "process_failed"]

\* get_dithered_art(url, size) on cache c with the current settings: the cache
\* it leaves, what it returns, and how many network fetches it made.
GetDitheredArt(c, alg, show, url, size, fetch, proc) ==
    LET key == CacheKey(alg, size) IN
    IF ~ArtGuard(url, show)
    THEN [cache |-> c, result |-> Absent, fetches |-> 0, outcome |-> "refused"]
    ELSE IF CacheHit(c, url, key)
    THEN [cache |-> c, result |-> c.cached_dithered[key], fetches |-> 0,
          outcome |-> "hit"]
    ELSE LET f == FetchArt(c, url, fetch) IN
         IF f.failed
         THEN [cache |-> f.cache, result |-> Absent, fetches |-> f.fetches,
               outcome |-> "fetch_failed"]
         ELSE IF f.cache.cached_art = None
         THEN [cache |-> f.cache, result |-> Absent, fetches |-> f.fetches,
               outcome |-> "no_art"]
         ELSE LET d == DitherAndStore(f.cache, alg, size, proc) IN
              [cache |-> d.cache, result |-> d.result, fetches |-> f.fetches,
               outcome |-> d.outcome]

\* The history entry of one get_dithered_art call on cache c: its arguments,
\* what it did, and what the cache was before it.
ArtCall(c, alg, url, size, r) ==
    [url |-> url, size |-> size, fetches |-> r.fetches, outcome |-> r.outcome,
     result |-> r.result, changed |-> (r.cache # c), pre_url |-> c.cached_url,
     pre_had_key |-> (CacheKey(alg, size) \in DOMAIN c.cached_dithered)]

NoArtCall == [url |-> None, size |-> 0, fetches |-> 0, outcome |-> None,
              result |-> Absent, changed |-> FALSE, pre_url |-> None,
              pre_had_key |-> FALSE]

SetCache(c) ==
    /\ cached_url' = c.cached_url
    /\ cached_art' = c.cached_art
    /\ cached_dithered' = c.cached_dithered

LogArtCall(url, size, r) ==
    /\ art_log' = ArtCall(Cache, dither_algorithm, url, size, r)
    /\ art_calls' = IF art_calls < 2 THEN art_calls + 1 ELSE art_calls

\* AlbumArtManager.fetch_settings: a 200 response sets the three settings
\* (each defaulted when missing); anything else leaves them alone.
NoSettings == [ok |-> FALSE, displayMode |-> "thumbnail",
               ditherAlgorithm |-> "floyd", showAlbumArt |-> TRUE]
SettingsResponses ==
    {NoSettings}
    \cup [ok : {TRUE}, displayMode : DisplayModes, ditherAlgorithm : Algorithms,
          showAlbumArt : BOOLEAN]

fetch_settings_with(resp) ==
    /\ ~started
    /\ IF resp.ok
       THEN /\ display_mode' = resp.displayMode
            /\ dither_algorithm' = resp.ditherAlgorithm
            /\ show_album_art' = resp.showAlbumArt
       ELSE UNCHANGED <<display_mode, dither_algorithm, show_album_art>>
    /\ started' = TRUE
    /\ UNCHANGED <<now, cached_url, cached_art, cached_dithered, artHist>>
    /\ UNCHANGED <<epd, refreshVars, histVars, extVars>>

\* A caller invokes get_dithered_art(url, size); fetch and proc are what the
\* network and the image library do if the call gets to them.
get_dithered_art_with(url, size, fetch, proc) ==
    LET r == GetDitheredArt(Cache, dither_algorithm, show_album_art,
                            url, size, fetch, proc) IN
    /\ started
    /\ SetCache(r.cache)
    /\ LogArtCall(url, size, r)
    /\ UNCHANGED <<now, started, display_mode, dither_algorithm, show_album_art>>
    /\ UNCHANGED <<epd, refreshVars, histVars, extVars>>

\* The outcomes that can differ: processing is only reached after a fetch
\* that succeeded.
ArtOutcomes == {<<f, "ok">> : f \in FetchOutcomes} \cup {<<"ok", "error">>}

get_dithered_art ==
    \E url \in Urls \cup {EmptyUrl}, size \in Sizes, o \in ArtOutcomes :
       get_dithered_art_with(url, size, o[1], o[2])

----------------------------------------------------------------------------
(* Clock *)

FULL_REFRESH_INTERVAL == 21600

\* The clock readings of the model: StartTime and a few sub-minute steps after
\* it, the next whole minutes, and the same sub-minute steps whole anti-ghosting
\* intervals later.  Epoch time is far larger than the interval, so StartTime
\* is.  The interval is a whole number of hours, so readings an interval apart
\* share their minute-of-hour.
SubStep == 20
MaxSub == 1
MaxMinutes == 2
MaxIntervals == 1

StartTime == 2 * FULL_REFRESH_INTERVAL

Instants ==
    {StartTime + i * FULL_REFRESH_INTERVAL + s * SubStep :
        i \in 0..MaxIntervals, s \in 0..MaxSub}
    \cup {StartTime + m * 60 : m \in 1..MaxMinutes}

Minute(t) == (t \div 60) % 60
AbsMinute(t) == t \div 60

Tick == /\ \E t \in Instants : t > now /\ now' = t
        /\ UNCHANGED <<started, artVars, epd, refreshVars, artHist, histVars, extVars>>

----------------------------------------------------------------------------
(* Inputs of the renderer *)

\* epd: a driver with display_Partial, a driver without it (the call raises
\* AttributeError), or no driver at all (preview-file mode).
Sinks == {"partial", "full_only", "none"}

\* Whether the last sink call of an operation returns or raises.
PushOutcomes == {"ok", "error"}

\* A flight record: its callsign, and its distance as the text painted.
Callsigns == {"QFA12", "VOZ5"}
Distances == {"12.3", "8.1"}
NoFlight == [present |-> FALSE, callsign |-> None, distance |-> None]
Flights ==
    {NoFlight}
    \cup {f \in [present : {TRUE}, callsign : Callsigns, distance : Distances] :
            f.callsign = "QFA12" \/ f.distance = "8.1"}

\* flight.get('callsign') if flight else None
CallsignOf(flight) == IF flight.present THEN flight.callsign ELSE None

\* A special-alerts dict maps each key it has to the length of its list;
\* None and {} are both the dict without keys.
AlertKeys == {"military", "emergency", "vip"}
NoAlerts == [k \in {} |-> 0]
\* The responses of the alerts endpoint: none (the fetch failed), a dict of
\* three empty lists, or one with an aircraft in its emergency list.
AlertResponses ==
    {NoAlerts}
    \cup {[k \in AlertKeys |-> IF k = a THEN 1 ELSE 0] : a \in {"emergency", None}}
Truthy(dict) == DOMAIN dict # {}
AnyAlert(dict) == \E k \in DOMAIN dict : dict[k] > 0

\* DataFetcher.get_special_alerts: the response, or the record of three empty
\* lists when the fetch failed.
GetSpecialAlerts(resp) == IF Truthy(resp) THEN resp ELSE [k \in AlertKeys |-> 0]

\* The special_alerts argument: the default (None), or what the main loop holds.
AlertArgs == {NoAlerts} \cup {GetSpecialAlerts(resp) : resp \in AlertResponses}

\* A now-playing record: None and "not playing" behave alike; albumArt is
\* albumArt or albumArtSmall.
NotPlaying == [playing |-> FALSE, albumArt |-> EmptyUrl]
NowPlayings == {NotPlaying} \cup [playing : {TRUE}, albumArt : Urls \cup {EmptyUrl}]

----------------------------------------------------------------------------
(* DisplayRenderer *)

Refresh == [last_full_refresh |-> last_full_refresh, current_minute |-> current_minute,
            current_flight |-> current_flight, music_mode_active |-> music_mode_active]

\* needs_full_refresh()
NeedsFullRefresh_AtInterval(lfr, t) == t - lfr >= FULL_REFRESH_INTERVAL
NeedsFullRefresh(lfr, t) == t - lfr > FULL_REFRESH_INTERVAL

\* render_full, "Push to display": the sink calls that returned, whether the
\* push raised, and last_full_refresh afterwards (t is time.time() after the push).
PushFull(sink, lfr, t, push) ==
    IF push = "error"
    THEN [calls |-> <<>>, raised |-> TRUE, last_full_refresh |-> lfr]
    ELSE IF sink # "none"
         THEN [calls |-> <<"display">>, raised |-> FALSE, last_full_refresh |-> t]
         ELSE [calls |-> <<"save">>, raised |-> FALSE, last_full_refresh |-> lfr]

\* partial_update_clock / partial_update_flight, the push: display_Partial, the
\* full display call when display_Partial is missing, or the preview file.
PushPartial_StampsFallback(sink, lfr, t, push) ==
    IF push = "error"
    THEN [calls |-> <<>>, raised |-> TRUE, last_full_refresh |-> lfr]
    ELSE IF sink = "partial"
         THEN [calls |-> <<"display_Partial">>, raised |-> FALSE, last_full_refresh |-> lfr]
         ELSE IF sink = "full_only"
              THEN [calls |-> <<"display">>, raised |-> FALSE, last_full_refresh |-> t]
              ELSE [calls |-> <<"save">>, raised |-> FALSE, last_full_refresh |-> lfr]
PushPartial(sink, lfr, t, push) ==
    IF push = "error"
    THEN [calls |-> <<>>, raised |-> TRUE, last_full_refresh |-> lfr]
    ELSE IF sink = "partial"
         THEN [calls |-> <<"display_Partial">>, raised |-> FALSE, last_full_refresh |-> lfr]
         ELSE IF sink = "full_only"
              THEN [calls |-> <<"display">>, raised |-> FALSE, last_full_refresh |-> lfr]
              ELSE [calls |-> <<"save">>, raised |-> FALSE, last_full_refresh |-> lfr]

\* render_full, "Check for music mode".
MusicAttempt_AnyMode(mode, show, np) == np.playing /\ show
MusicAttempt(mode, show, np) == mode = "music" /\ np.playing /\ show

\* The size of the one get_dithered_art call render_full makes (0: none):
\* _draw_music_mode asks for the large variant; when music mode is not tried,
\* _draw_now_playing asks for the thumbnail in thumbnail mode.
RenderArtSize(mode, show, np) ==
    IF MusicAttempt(mode, show, np)
    THEN IF np.albumArt # EmptyUrl THEN music_mode_size ELSE 0
    ELSE IF np.playing /\ np.albumArt # EmptyUrl /\ show /\ mode = "thumbnail"
         THEN thumbnail_size
         ELSE 0

\* render_full on refresh state s: t0 is datetime.now() at the start, t1 is
\* time.time() after the push, music is music_mode_rendered.
RenderFull(sink, s, t0, t1, flight, music, push) ==
    LET p == PushFull(sink, s.last_full_refresh, t1, push) IN
    [state |-> IF p.raised
               THEN [s EXCEPT !.music_mode_active = music]
               ELSE [last_full_refresh |-> p.last_full_refresh,
                     current_minute |-> Minute(t0),
                     current_flight |-> flight,
                     music_mode_active |-> music],
     detected |-> TRUE,
     drawn |-> IF music
               THEN <<"full", "music_mode", "weather", "flight", "status">>
               ELSE <<"full", "clock", "date", "weather", "flight", "status",
                      "now_playing">>,
     pushes |-> p.calls, raised |-> p.raised]

\* partial_update_clock, the change test.
MinuteChanged_Always(minute, current) == TRUE
MinuteChanged(minute, current) == minute # current

\* partial_update_clock on refresh state s at clock reading t.
PartialUpdateClock_SetsOnPartialOnly(sink, s, t, push) ==
    IF ~MinuteChanged(Minute(t), s.current_minute)
    THEN [state |-> s, detected |-> FALSE, drawn |-> <<>>, pushes |-> <<>>,
          raised |-> FALSE]
    ELSE LET p == PushPartial(sink, s.last_full_refresh, t, push) IN
         [state |-> IF p.raised \/ p.calls # <<"display_Partial">>
                    THEN [s EXCEPT !.last_full_refresh = p.last_full_refresh]
                    ELSE [s EXCEPT !.last_full_refresh = p.last_full_refresh,
                                   !.current_minute = Minute(t)],
          detected |-> TRUE, drawn |-> <<"clock", "date">>, pushes |-> p.calls,
          raised |-> p.raised]
PartialUpdateClock(sink, s, t, push) ==
    IF ~MinuteChanged(Minute(t), s.current_minute)
    THEN [state |-> s, detected |-> FALSE, drawn |-> <<>>, pushes |-> <<>>,
          raised |-> FALSE]
    ELSE LET p == PushPartial(sink, s.last_full_refresh, t, push) IN
         [state |-> IF p.raised
                    THEN s
                    ELSE [s EXCEPT !.last_full_refresh = p.last_full_refresh,
                                   !.current_minute = Minute(t)],
          detected |-> TRUE, drawn |-> <<"clock", "date">>, pushes |-> p.calls,
          raised |-> p.raised]

\* partial_update_flight, the change test.
FlightChanged(flight, current, alerts) ==
    ~(CallsignOf(flight) = CallsignOf(current) /\ ~Truthy(alerts))

\* partial_update_flight on refresh state s.
PartialUpdateFlight_RepaintsNowPlaying(sink, s, flight, alerts, t, push) ==
    IF ~FlightChanged(flight, s.current_flight, alerts)
    THEN [state |-> s, detected |-> FALSE, drawn |-> <<>>, pushes |-> <<>>,
          raised |-> FALSE]
    ELSE LET p == PushPartial(sink, s.last_full_refresh, t, push) IN
         [state |-> IF p.raised
                    THEN s
                    ELSE [s EXCEPT !.last_full_refresh = p.last_full_refresh,
                                   !.current_flight = flight],
          detected |-> TRUE, drawn |-> <<"flight", "status", "now_playing">>,
          pushes |-> p.calls, raised |-> p.raised]
PartialUpdateFlight(sink, s, flight, alerts, t, push) ==
    IF ~FlightChanged(flight, s.current_flight, alerts)
    THEN [state |-> s, detected |-> FALSE, drawn |-> <<>>, pushes |-> <<>>,
          raised |-> FALSE]
    ELSE LET p == PushPartial(sink, s.last_full_refresh, t, push) IN
         [state |-> IF p.raised
                    THEN s
                    ELSE [s EXCEPT !.last_full_refresh = p.last_full_refresh,
                                   !.current_flight = flight],
          detected |-> TRUE, drawn |-> <<"flight", "status">>, pushes |-> p.calls,
          raised |-> p.raised]

\* clear()
Clear(s, t) == [s EXCEPT !.last_full_refresh = t]

\* The history entry of one renderer operation: the regions it drew and the
\* sink calls that returned, in order, whether it ended by raising, and how
\* many sink calls returned on the hardware twin.
OpEntry(op, r, h) ==
    [op |-> op, drawn |-> r.drawn, pushes |-> r.pushes, raised |-> r.raised,
     twin_pushes |-> Len(h.pushes)]

NoOp == [state |-> Refresh, detected |-> FALSE, drawn |-> <<>>, pushes |-> <<>>,
         raised |-> FALSE]

SetRefresh(s) ==
    /\ last_full_refresh' = s.last_full_refresh
    /\ current_minute' = s.current_minute
    /\ current_flight' = s.current_flight
    /\ music_mode_active' = s.music_mode_active

\* render_full(weather, flight, special_alerts, now_playing); weather and
\* special_alerts only select what is painted.  t1 is the clock after the push.
render_full_with(flight, np, fetch, proc, push, t1) ==
    LET size == RenderArtSize(display_mode, show_album_art, np)
        a == GetDitheredArt(Cache, dither_algorithm, show_album_art,
                            np.albumArt, size, fetch, proc)
        music == size = music_mode_size /\ a.result # Absent
        r == RenderFull(epd, Refresh, now, t1, flight, music, push)
        h == RenderFull("partial", twin, now, t1, flight, music, push)
    IN /\ started
       /\ IF size # 0
          THEN SetCache(a.cache) /\ LogArtCall(np.albumArt, size, a)
          ELSE UNCHANGED <<cached_url, cached_art, cached_dithered, artHist>>
       /\ SetRefresh(r.state)
       /\ twin' = h.state
       /\ op_log' = OpEntry("render_full", r, h)
       /\ full_done_at' = IF r.raised THEN full_done_at ELSE t1
       /\ minute_sync' = IF r.raised THEN minute_sync ELSE now
       /\ now' = t1
       /\ UNCHANGED <<started, display_mode, dither_algorithm, show_album_art, epd, extVars>>

\* The art outcomes that can differ for a now-playing record.
RenderArtOutcomes(np) ==
    IF RenderArtSize(display_mode, show_album_art, np) = 0
    THEN {<<"ok", "ok">>}
    ELSE ArtOutcomes

\* The clock readings a push started now can end at.
PushEnds == {t \in Instants : now <= t /\ t <= now + SubStep}

render_full ==
    \E flight \in Flights, np \in NowPlayings, push \in PushOutcomes, t1 \in PushEnds :
       \E o \in RenderArtOutcomes(np) :
          render_full_with(flight, np, o[1], o[2], push, t1)

\* render_full while nothing is playing.
render_full_idle ==
    \E flight \in Flights, push \in PushOutcomes, t1 \in PushEnds :
       render_full_with(flight, NotPlaying, "ok", "ok", push, t1)

partial_update_clock_with(push) ==
    LET r == PartialUpdateClock(epd, Refresh, now, push)
        h == PartialUpdateClock("partial", twin, now, push)
    IN /\ started
       /\ SetRefresh(r.state)
       /\ twin' = h.state
       /\ op_log' = OpEntry("partial_update_clock", r, h)
       /\ minute_sync' = IF r.detected /\ ~r.raised THEN now ELSE minute_sync
       /\ UNCHANGED <<now, started, artVars, epd, artHist, full_done_at, extVars>>

partial_update_clock == \E push \in PushOutcomes : partial_update_clock_with(push)

partial_update_flight_with(flight, alerts, push) ==
    LET r == PartialUpdateFlight(epd, Refresh, flight, alerts, now, push)
        h == PartialUpdateFlight("partial", twin, flight, alerts, now, push)
    IN /\ started
       /\ SetRefresh(r.state)
       /\ twin' = h.state
       /\ op_log' = OpEntry("partial_update_flight", r, h)
       /\ UNCHANGED <<now, started, artVars, epd, artHist, full_done_at, minute_sync, extVars>>

partial_update_flight ==
    \E flight \in Flights, alerts \in AlertArgs, push \in PushOutcomes :
       partial_update_flight_with(flight, alerts, push)

clear ==
    /\ started
    /\ SetRefresh(Clear(Refresh, now))
    /\ twin' = Clear(twin, now)
    /\ op_log' = OpEntry("clear", [NoOp EXCEPT !.drawn = <<"full">>], NoOp)
    /\ full_done_at' = now
    /\ UNCHANGED <<now, started, artVars, epd, artHist, minute_sync, extVars>>

----------------------------------------------------------------------------
(* Specifications *)

\* Before run() enters its loop, before any image is dithered and before any
\* region is painted.
NoIteration == [phase |-> "init", asleep |-> FALSE, calls |-> <<>>,
                raised_in |-> None, start |-> -1, end |-> -1, previous |-> -1,
                previous_full_failed |-> FALSE, stamp |-> 0]
NoImage == [width |-> 0, height |-> 0, px |-> <<>>]
NoPixelStep == [x |-> 0, y |-> 0, old |-> 0, new |-> 0, added |-> <<>>]
NoDrawing == [op |-> None, arg |-> <<>>, lines |-> <<>>, rows |-> <<>>]

\* VectorClockDisplay.__init__: nothing fetched yet, the flag set.
NoData == [weather |-> None, flight |-> NoFlight, special_alerts |-> NoAlerts,
           now_playing |-> NotPlaying, last_weather_update |-> 0,
           last_flight_check |-> 0]
NoArgs == [call |-> None, names |-> {}, weather |-> None, flight |-> NoFlight,
           special_alerts |-> NoAlerts, now_playing |-> NotPlaying]
NoFetch == [op |-> None, location |-> <<>>, states |-> <<>>, ok |-> FALSE,
            result |-> <<>>]
NoRunStep == [step |-> None, calls |-> <<>>, raised_in |-> None,
              polled |-> {}, failed |-> {}, args |-> NoArgs,
              slept |-> 0, late |-> 0, cleanups |-> 0, sink_sleeps |-> 0,
              weather_fetch_at |-> 0, flight_fetch_at |-> 0]

InitRefresh == [last_full_refresh |-> 0, current_minute |-> -1,
                current_flight |-> NoFlight, music_mode_active |-> FALSE]

Init ==
    /\ now = StartTime
    /\ started = FALSE
    /\ display_mode = "thumbnail"
    /\ dither_algorithm = "floyd"
    /\ show_album_art = TRUE
    /\ cached_url = None
    /\ cached_art = None
    /\ cached_dithered = EmptyMap
    /\ epd \in Sinks
    /\ last_full_refresh = 0
    /\ current_minute = -1
    /\ current_flight = NoFlight
    /\ music_mode_active = FALSE
    /\ art_log = NoArtCall
    /\ art_calls = 0
    /\ op_log = [op |-> None, drawn |-> <<>>, pushes |-> <<>>, raised |-> FALSE,
                 twin_pushes |-> 0]
    /\ full_done_at = -1
    /\ minute_sync = -1
    /\ twin = InitRefresh
    /\ loop_log = NoIteration
    /\ image = NoImage
    /\ pixels = NoImage
    /\ scan = 0
    /\ px_log = NoPixelStep
    /\ draw_log = NoDrawing
    /\ app = NoData
    /\ fetcher_weather = None
    /\ running = TRUE
    /\ run_pc = "start"
    /\ run_log = NoRunStep
    /\ fetch_log = NoFetch

\* run() fetches the settings first.
fetch_settings == \E resp \in SettingsResponses : fetch_settings_with(resp)
\* The settings endpoint does not answer: the defaults stay.
fetch_settings_fails == fetch_settings_with(NoSettings)

\* The art cache driven by arbitrary callers.
NextArt == fetch_settings \/ get_dithered_art

SpecArt == Init /\ [][NextArt]_vars

\* The refresh scheduler driven by arbitrary callers as the clock advances,
\* with the default settings and nothing playing.
Next ==
    \/ fetch_settings_fails
    \/ Tick
    \/ render_full_idle
    \/ partial_update_clock
    \/ partial_update_flight
    \/ clear

Spec == Init /\ [][Next]_vars

----------------------------------------------------------------------------
(* The art cache: claims C1 to C4, under SpecArt *)

\* A step in which get_dithered_art is called again with the URL and size of
\* the call before it, album art being enabled.
RepeatedArtCall(url, size, o) ==
    /\ get_dithered_art_with(url, size, o[1], o[2])
    /\ show_album_art
    /\ art_calls > 0
    /\ art_log.url = url
    /\ art_log.size = size

\* C1 as claimed: two consecutive calls of get_dithered_art with the same
\* non-empty URL, algorithm and size make exactly one network fetch in total,
\* and the second call is answered from the stored variants.
C1_ExactlyOneFetch ==
    [][\A url \in Urls, size \in Sizes, o \in ArtOutcomes :
          RepeatedArtCall(url, size, o)
          => /\ art_log.fetches + art_log'.fetches = 1
             /\ art_log'.outcome = "hit"]_vars

\* C1 as amended: when a call of get_dithered_art returned a variant, the next
\* call with the same URL, algorithm and size makes no network fetch and
\* returns that stored variant without resizing or dithering again, leaving the
\* cache as it was; the two calls together make at most one fetch.
C1_SecondCallHits ==
    [][\A url \in Urls, size \in Sizes, o \in ArtOutcomes :
          (RepeatedArtCall(url, size, o) /\ art_log.result # Absent)
          => /\ art_log'.outcome = "hit"
             /\ art_log'.fetches = 0
             /\ art_log'.result = art_log.result
             /\ ~art_log'.changed
             /\ art_log.fetches + art_log'.fetches <= 1]_vars

\* The second of two equal calls was answered from the cache.
C1_Witness ==
    /\ art_calls = 2
    /\ art_log.outcome = "hit"
    /\ art_log.url \in Urls

\* C2: every variant held in cached_dithered was dithered from the image
\* fetched from the current cached_url and is filed under its own algorithm
\* and size, and every variant a call returns was dithered from the image of
\* the URL asked for: a key cached under an earlier URL is never served.
C2_VariantsOfCurrentUrl ==
    /\ \A k \in DOMAIN cached_dithered :
          /\ cached_dithered[k].src = cached_url
          /\ cached_art = cached_url
          /\ k = CacheKey(cached_dithered[k].alg, cached_dithered[k].size)
    /\ art_log.result # Absent
       => /\ art_log.result = Variant(art_log.url, dither_algorithm, art_log.size)
          /\ (art_log.pre_url # art_log.url
               => art_log.outcome = "stored" /\ art_log.fetches = 1)
    /\ (art_log.fetches = 1 /\ art_log.outcome \in {"stored", "process_failed"})
       => DOMAIN cached_dithered \subseteq {CacheKey(dither_algorithm, art_log.size)}

\* A key that was cached under the previous URL was asked for under a new URL
\* and recomputed.
C2_Witness ==
    /\ art_log.pre_url \in Urls
    /\ art_log.pre_url # art_log.url
    /\ art_log.pre_had_key
    /\ art_log.outcome = "stored"

\* C3 as claimed: a call with a URL other than cached_url whose fetch fails
\* (status, transport, undecodable image) or whose image cannot be processed
\* returns absent and leaves cached_url, cached_art and cached_dithered as
\* they were, so that the next call with that URL fetches again.
C3_FailureLeavesCacheUntouched ==
    (/\ art_calls > 0
     /\ art_log.url # art_log.pre_url
     /\ art_log.outcome \in {"fetch_failed", "process_failed"})
    => /\ art_log.result = Absent
       /\ ~art_log.changed
       /\ cached_url # art_log.url

\* C4: with an empty URL or with album art disabled, get_dithered_art returns
\* absent, fetches nothing and changes no cache field, whatever is cached.
C4_RefusedCallsTouchNothing ==
    (art_calls > 0 /\ (art_log.url = EmptyUrl \/ ~show_album_art))
    => /\ art_log.outcome = "refused"
       /\ art_log.result = Absent
       /\ art_log.fetches = 0
       /\ ~art_log.changed

\* A call with an empty URL was refused while a variant of its key was cached.
C4_Witness ==
    /\ art_calls > 0
    /\ art_log.url = EmptyUrl
    /\ art_log.pre_had_key
    /\ art_log.outcome = "refused"

----------------------------------------------------------------------------
(* The refresh scheduler: claims C5 to C10, under Spec *)

\* The step can be a call of the named partial update: it leaves that name in
\* op_log and, unlike a clock tick or a render_full that takes time, keeps now.
StepOf(op) == op_log'.op = op /\ now' = now

\* C5 as claimed: once a render_full has pushed the buffer, to the hardware or
\* to the preview file (or clear() has run), needs_full_refresh() is false
\* while no more than FULL_REFRESH_INTERVAL has elapsed since, and true once
\* more has elapsed.
C5_AntiGhostingTimer ==
    full_done_at >= 0
    => (NeedsFullRefresh(last_full_refresh, now)
        <=> now - full_done_at > FULL_REFRESH_INTERVAL)

\* C6 as claimed: without a hardware sink the renderer goes through the same
\* refresh state, and so the same full-or-partial decision, as the same run on
\* a hardware sink, and saves the preview once for every hardware push.
C6_SinkTransparent ==
    epd = "none"
    => /\ Refresh = twin
       /\ NeedsFullRefresh(last_full_refresh, now)
             = NeedsFullRefresh(twin.last_full_refresh, now)
       /\ Len(op_log.pushes) = op_log.twin_pushes

\* The minute boundaries the clock has crossed since current_minute was set.
Crossed == AbsMinute(now) - AbsMinute(minute_sync)

\* C7 as claimed: partial_update_clock does nothing when the minute has not
\* advanced since current_minute was set, and pushes once for each minute
\* boundary crossed since.
C7_OncePerBoundary ==
    [][(StepOf("partial_update_clock") /\ minute_sync >= 0
        /\ partial_update_clock_with("ok"))
       => /\ Len(op_log'.pushes) = Crossed
          /\ (Crossed = 0 => op_log'.drawn = <<>>)]_vars

\* C7 as amended: partial_update_clock draws nothing, pushes nothing and
\* changes nothing when the minute has not advanced since current_minute was
\* set; otherwise it pushes at most once per call, and exactly when the
\* minute-of-hour differs from current_minute: once when one boundary was
\* crossed, once when several were, not at all after a whole number of hours.
C7_PushIffMinuteDiffers ==
    [][(StepOf("partial_update_clock") /\ minute_sync >= 0
        /\ partial_update_clock_with("ok"))
       => /\ Crossed = 0
             => /\ op_log'.drawn = <<>>
                /\ op_log'.pushes = <<>>
                /\ UNCHANGED refreshVars
          /\ Crossed = 1 => Len(op_log'.pushes) = 1
          /\ Len(op_log'.pushes) = (IF Crossed % 60 = 0 THEN 0 ELSE 1)]_vars

\* partial_update_clock was called again later in the minute current_minute
\* was set in, and did nothing.
C7_Witness ==
    /\ op_log.op = "partial_update_clock"
    /\ op_log.drawn = <<>>
    /\ op_log.pushes = <<>>
    /\ minute_sync >= 0
    /\ now > minute_sync
    /\ Crossed = 0

\* C8 as claimed: partial_update_flight does nothing (no redraw, no push,
\* current_flight kept) when the new flight has the callsign of current_flight
\* and no alert is present, also for the record of three empty lists that
\* get_special_alerts returns.
C8_SameCallsignNoAlertIsNoOp ==
    [][StepOf("partial_update_flight")
       => \A flight \in Flights, alerts \in AlertArgs, push \in PushOutcomes :
             (/\ CallsignOf(flight) = CallsignOf(current_flight)
              /\ ~AnyAlert(alerts)
              /\ partial_update_flight_with(flight, alerts, push))
             => /\ op_log'.drawn = <<>>
                /\ op_log'.pushes = <<>>
                /\ ~op_log'.raised
                /\ current_flight' = current_flight]_vars

\* C9 as claimed: when partial_update_clock detects a minute change it sets
\* current_minute to the new minute, and when partial_update_flight detects a
\* change it sets current_flight to the new flight, whatever the push did:
\* accepted, replaced by a full push, or failed with an error.
C9_UpdatedWhateverThePush ==
    [][/\ StepOf("partial_update_clock")
          => \A push \in PushOutcomes :
             (/\ MinuteChanged(Minute(now), current_minute)
              /\ partial_update_clock_with(push))
             => current_minute' = Minute(now)
       /\ StepOf("partial_update_flight")
          => \A flight \in Flights, alerts \in AlertArgs, push \in PushOutcomes :
             (/\ FlightChanged(flight, current_flight, alerts)
              /\ partial_update_flight_with(flight, alerts, push))
             => current_flight' = flight]_vars

\* C9 as amended: when the push returns (partial push accepted, or partial
\* push unsupported and replaced by a full push) the detected minute or flight
\* is stored; when the push fails with an error the exception leaves the
\* operation before the assignment and the refresh state keeps its old value.
\* The clock part is stated of every partial_update_clock step, the flight
\* part of every call partial_update_flight can receive in a reachable state.
C9_UpdatedWhenPushReturns ==
    /\ [][StepOf("partial_update_clock")
          => /\ (op_log'.drawn # <<>> /\ ~op_log'.raised)
                => current_minute' = Minute(now)
             /\ op_log'.raised => UNCHANGED refreshVars
             /\ \A push \in PushOutcomes :
                   (/\ MinuteChanged(Minute(now), current_minute)
                    /\ partial_update_clock_with(push))
                   => op_log'.raised = (push = "error")]_vars
    /\ [][(StepOf("partial_update_flight") /\ op_log'.raised)
          => UNCHANGED refreshVars]_vars
    /\ [](\A flight \in Flights, alerts \in AlertArgs, push \in PushOutcomes :
            FlightChanged(flight, current_flight, alerts)
            => LET r == PartialUpdateFlight(epd, Refresh, flight, alerts, now, push)
               IN /\ r.raised = (push = "error")
                  /\ r.state.current_flight
                        = (IF push = "ok" THEN flight ELSE current_flight))

\* A partial clock update fell back to the full push and stored the minute.
C9_Witness ==
    /\ epd = "full_only"
    /\ op_log.op = "partial_update_clock"
    /\ op_log.pushes = <<"display">>
    /\ current_minute = Minute(now)

\* C10: partial_update_clock and partial_update_flight never change
\* last_full_refresh, not even when they push the whole buffer with the
\* full-refresh call; only render_full and clear() change it.
C10_OnlyFullAndClearStamp ==
    [][/\ (op_log'.op \in {"partial_update_clock", "partial_update_flight"})
          => last_full_refresh' = last_full_refresh
       /\ last_full_refresh' # last_full_refresh
          => op_log'.op \in {"render_full", "clear"}]_vars

\* A partial flight update pushed with the full-refresh call, and the
\* timestamp of the last full refresh is still an earlier one.
C10_Witness ==
    /\ op_log.op = "partial_update_flight"
    /\ op_log.pushes = <<"display">>
    /\ last_full_refresh > 0
    /\ last_full_refresh < now

----------------------------------------------------------------------------
(* VectorClockDisplay.run: the main loop *)

\* The clock readings of the loop: those of the renderer, and enough of them
\* after an elapsed interval for a failed full refresh to be tried again.
MaxLoopSub == 2
LoopInstants ==
    Instants
    \cup {StartTime + i * FULL_REFRESH_INTERVAL + s * SubStep :
            i \in 1..MaxIntervals, s \in 0..MaxLoopSub}
LoopPushEnds == {t \in LoopInstants : now <= t /\ t <= now + SubStep}

\* (A loop that also runs the partial updates after a full refresh.)
LoopBody_PartialsAfterFull(sink, s, t0, t1, flight, alerts, push1, push2) ==
    LET r == RenderFull(sink, s, t0, t1, flight, FALSE, push1)
        c == PartialUpdateClock(sink, s, t0, push1)
    IN IF NeedsFullRefresh(s.last_full_refresh, t0) /\ ~r.raised
       THEN [needs |-> TRUE, state |-> r.state,
             calls |-> <<"render_full", "partial_update_clock">>,
             raised_in |-> None, end |-> t1]
       ELSE [needs |-> FALSE, state |-> c.state,
             calls |-> <<"partial_update_clock", "partial_update_flight">>,
             raised_in |-> None, end |-> t0]

\* One pass of the loop body on refresh state s: the anti-ghosting test, then
\* render_full, or partial_update_clock and partial_update_flight.  An
\* exception leaves the try block at the call that raised it.  push1 and push2
\* are the outcomes of the first and the second push the pass gets to.
LoopBody(sink, s, t0, t1, flight, alerts, push1, push2) ==
    IF NeedsFullRefresh(s.last_full_refresh, t0)
    THEN LET r == RenderFull(sink, s, t0, t1, flight, FALSE, push1) IN
         [needs |-> TRUE, state |-> r.state, calls |-> <<"render_full">>,
          raised_in |-> IF r.raised THEN "render_full" ELSE None, end |-> t1]
    ELSE LET c == PartialUpdateClock(sink, s, t0, push1) IN
         IF c.raised
         THEN [needs |-> FALSE, state |-> c.state,
               calls |-> <<"partial_update_clock">>,
               raised_in |-> "partial_update_clock", end |-> t0]
         ELSE LET f == PartialUpdateFlight(sink, c.state, flight, alerts, t0,
                                           IF c.detected THEN push2 ELSE push1) IN
              [needs |-> FALSE, state |-> f.state,
               calls |-> <<"partial_update_clock", "partial_update_flight">>,
               raised_in |-> IF f.raised THEN "partial_update_flight" ELSE None,
               end |-> t0]

\* run(), before the loop: the initial render_full, outside the try block, and
\* the wait for the next minute.  An exception here ends run().
initial_render_with(flight, push, t1) ==
    LET r == RenderFull(epd, Refresh, now, t1, flight, FALSE, push) IN
    /\ started
    /\ loop_log.phase = "init"
    /\ SetRefresh(r.state)
    /\ now' = t1
    /\ loop_log' = [NoIteration EXCEPT
                       !.phase = IF r.raised THEN "crashed" ELSE "loop",
                       !.asleep = ~r.raised,
                       !.calls = <<"render_full">>,
                       !.raised_in = IF r.raised THEN "render_full" ELSE None,
                       !.start = now,
                       !.end = t1,
                       !.stamp = last_full_refresh]
    /\ UNCHANGED <<started, artVars, epd, artHist, histVars>>
    /\ UNCHANGED <<image, pixels, scan, px_log, draw_log, runVars, fetch_log>>

initial_render ==
    \E flight \in Flights, push \in PushOutcomes, t1 \in LoopPushEnds :
       initial_render_with(flight, push, t1)

\* One iteration of the while loop, from loop_start to the sleep.
loop_iteration_with(flight, alerts, push1, push2, t1) ==
    LET b == LoopBody(epd, Refresh, now, t1, flight, alerts, push1, push2)
    IN /\ loop_log.phase = "loop"
       /\ ~loop_log.asleep
       /\ SetRefresh(b.state)
       /\ now' = b.end
       /\ loop_log' = [phase |-> "loop", asleep |-> TRUE,
                       calls |-> b.calls, raised_in |-> b.raised_in,
                       start |-> now, end |-> b.end, previous |-> loop_log.start,
                       previous_full_failed |-> loop_log.raised_in = "render_full",
                       stamp |-> last_full_refresh]
       /\ UNCHANGED <<started, artVars, epd, artHist, histVars>>
       /\ UNCHANGED <<image, pixels, scan, px_log, draw_log, runVars, fetch_log>>

loop_iteration ==
    \E flight \in Flights, alerts \in AlertArgs, push1 \in PushOutcomes,
       push2 \in PushOutcomes, t1 \in LoopPushEnds :
       loop_iteration_with(flight, alerts, push1, push2, t1)

\* time.sleep at the end of the iteration (at least one second), or the five
\* seconds of the exception handler.
loop_sleep ==
    /\ loop_log.phase = "loop"
    /\ loop_log.asleep
    /\ \E t \in LoopInstants : t > now /\ now' = t
    /\ loop_log' = [loop_log EXCEPT !.asleep = FALSE]
    /\ UNCHANGED <<started, artVars, epd, refreshVars, artHist, histVars>>
    /\ UNCHANGED <<image, pixels, scan, px_log, draw_log, runVars, fetch_log>>

NextLoop == fetch_settings_fails \/ initial_render \/ loop_iteration \/ loop_sleep

SpecLoop == Init /\ [][NextLoop]_vars

\* An iteration of the loop has run.
Iterated == loop_log.phase = "loop" /\ loop_log.previous >= 0

\* needs_full_refresh() as the last iteration read it.
Needed == NeedsFullRefresh(loop_log.stamp, loop_log.start)

\* The last iteration completed a full refresh on the hardware.
FullDone ==
    /\ epd # "none"
    /\ "render_full" \in {loop_log.calls[i] : i \in DOMAIN loop_log.calls}
    /\ loop_log.raised_in = None

\* The time from the full refresh before the last iteration to the one it
\* made, and the time from the start of the previous iteration to its end.
Gap == last_full_refresh - loop_log.stamp
Span == loop_log.end - loop_log.previous

----------------------------------------------------------------------------
(* The layout: regions of the buffer and what the painters clear and paint *)

DISPLAY_WIDTH == 800
DISPLAY_HEIGHT == 480

Region(x, y, width, height) == [x |-> x, y |-> y, width |-> width, height |-> height]

REGIONS ==
    [clock       |-> Region(200, 160, 400, 160),
     date        |-> Region(250, 320, 300, 40),
     weather     |-> Region(0, 0, 250, 100),
     flight      |-> Region(0, 365, 800, 55),
     now_playing |-> Region(0, 420, 800, 60),
     status      |-> Region(550, 0, 250, 60),
     music_mode  |-> Region(0, 100, 800, 300),
     clock_mini  |-> Region(700, 10, 100, 40),
     full        |-> Region(0, 0, DISPLAY_WIDTH, DISPLAY_HEIGHT)]

\* Region.bounds: (x, y, x + width, y + height).
Bounds(region) ==
    <<region.x, region.y, region.x + region.width, region.y + region.height>>

\* A box is <<x0, y0, x1, y1>>, the pixels x0..x1 by y0..y1 (ImageDraw.rectangle
\* fills its second corner too); NoBox holds no pixel.
NoBox == <<0, 0, -1, -1>>
Intersects(a, b) ==
    /\ a[1] <= a[3] /\ a[2] <= a[4] /\ b[1] <= b[3] /\ b[2] <= b[4]
    /\ a[1] <= b[3] /\ b[1] <= a[3]
    /\ a[2] <= b[4] /\ b[2] <= a[4]

\* The rectangle a painter fills with white before it paints: its region's
\* bounds; _draw_music_mode clears nothing.
ClearedBy(painter) ==
    IF painter \in DOMAIN REGIONS /\ painter # "music_mode"
    THEN Bounds(REGIONS[painter])
    ELSE NoBox

\* _draw_music_mode: the album art pasted at (art_x, art_y), art_size square.
ArtBox ==
    LET art_x == (DISPLAY_WIDTH - music_mode_size) \div 2
        art_y == REGIONS.music_mode.y + 10
    IN <<art_x, art_y, art_x + music_mode_size - 1, art_y + music_mode_size - 1>>

\* _draw_music_mode: the mini clock, text anchored at the top-left corner of
\* clock_mini; whatever the font, its first pixel row and column start there.
MiniClockBox ==
    LET mini_region == REGIONS.clock_mini
    IN <<mini_region.x, mini_region.y,
         mini_region.x + mini_region.width - 1, mini_region.y + mini_region.height - 1>>

\* The painters of the standard layout, in render_full's order after the clear.
StandardLayout == <<"full", "clock", "date", "weather", "flight", "status", "now_playing">>

\* The painters that ran after painter number i of a drawn list.
PaintedAfter(drawn, i) == {drawn[j] : j \in {k \in DOMAIN drawn : k > i}}

----------------------------------------------------------------------------
(* Music mode: render_full with every now-playing record and display mode *)

\* The settings responses with the default dither algorithm.
fetch_settings_floyd ==
    \E resp \in {r \in SettingsResponses : r.ditherAlgorithm = "floyd"} :
       fetch_settings_with(resp)

\* The clock reaches a later minute of the first hour.
TickMinute ==
    /\ \E m \in 1..MaxMinutes : StartTime + m * 60 > now /\ now' = StartTime + m * 60
    /\ UNCHANGED <<started, artVars, epd, refreshVars, artHist, histVars, extVars>>

\* The now-playing records with at most the one art URL.
OneUrlPlayings == {np \in NowPlayings : np.albumArt \in {EmptyUrl, "u1"}}

\* render_full with no flight in range and a push that takes no time.
render_full_no_flight ==
    \E np \in OneUrlPlayings, push \in PushOutcomes :
       \E o \in RenderArtOutcomes(np) :
          render_full_with(NoFlight, np, o[1], o[2], push, now)

\* partial_update_flight with no flight in range.
partial_update_no_flight ==
    \E alerts \in AlertArgs, push \in PushOutcomes :
       partial_update_flight_with(NoFlight, alerts, push)

NextMusic ==
    \/ fetch_settings_floyd
    \/ TickMinute
    \/ render_full_no_flight
    \/ partial_update_clock
    \/ partial_update_no_flight

SpecMusic == Init /\ [][NextMusic]_vars


\* The last operation was a render_full that took the music-mode layout.
MusicRendered ==
    /\ op_log.op = "render_full"
    /\ \E i \in DOMAIN op_log.drawn : op_log.drawn[i] = "music_mode"

\* C12: when display_mode is not 'music', render_full paints the standard
\* layout (clock, date, weather, flight, status, now-playing) and leaves
\* music_mode_active false, whatever is playing and whether or not its art
\* was fetched.
C12_NoTakeoverOutsideMusicMode ==
    (op_log.op = "render_full" /\ display_mode # "music")
    => /\ op_log.drawn = StandardLayout
       /\ ~music_mode_active
       /\ art_log.size # music_mode_size

\* In thumbnail mode, with art enabled, render_full painted a playing track
\* whose art it fetched and dithered.
C12_Witness ==
    /\ op_log.op = "render_full"
    /\ display_mode = "thumbnail"
    /\ show_album_art
    /\ art_log.outcome = "stored"
    /\ op_log.pushes # <<>>

\* C13 as claimed: when render_full engages music mode, no painter that runs
\* after _draw_music_mode in the same pass clears or overwrites the area
\* where the mini clock was painted, so the pushed buffer shows it.
C13_MiniClockSurvives ==
    MusicRendered
    => \A i \in DOMAIN op_log.drawn :
          op_log.drawn[i] = "music_mode"
          => \A painter \in PaintedAfter(op_log.drawn, i) :
                ~Intersects(ClearedBy(painter), MiniClockBox)

\* C14 as claimed: while music_mode_active is true, no operation other than
\* render_full paints the clock or the date region, and none clears a
\* rectangle that meets the album art.
C14_NoClockOverMusic ==
    (music_mode_active /\ op_log.op # "render_full")
    => \A i \in DOMAIN op_log.drawn :
          /\ op_log.drawn[i] \notin {"clock", "date"}
          /\ ~Intersects(ClearedBy(op_log.drawn[i]), ArtBox)

----------------------------------------------------------------------------
(* The text painters: _draw_flight's info line and _draw_status *)

\* int(x) of the quotient n / d for d > 0: truncation towards zero.
TruncDiv(n, d) == IF n >= 0 THEN n \div d ELSE -((-n) \div d)

\* The decimal digits of a natural number, most significant first.
RECURSIVE Digits(_)
Digits(n) == IF n < 10 THEN <<n>> ELSE Append(Digits(n \div 10), n % 10)

\* format(n, "03d"): the sign, then the digits zero-padded to a width of 3
\* characters, sign included.
RECURSIVE PadTo(_, _)
PadTo(digits, width) ==
    IF Len(digits) >= width THEN digits ELSE PadTo(<<0>> \o digits, width)
Format03d(n) ==
    IF n >= 0
    THEN [negative |-> FALSE, digits |-> PadTo(Digits(n), 3)]
    ELSE [negative |-> TRUE, digits |-> PadTo(Digits(-n), 2)]

\* The altitudes (metres) a flight record carries; 0 and a missing altitude
\* are both falsy.
MaxAltitude == 11000
Altitudes == 0..MaxAltitude

\* _draw_flight, the flight-level part: int(altitude / 30.48), with 30.48 taken
\* as 3048/100 (the double quotient truncates to the same integer for every
\* altitude considered).
FlightLevel_Rounded(altitude) ==
    LET q == (altitude * 100) \div 3048
        r == (altitude * 100) % 3048
    IN IF 2 * r > 3048 \/ (2 * r = 3048 /\ q % 2 = 1) THEN q + 1 ELSE q
FlightLevel(altitude) == TruncDiv(altitude * 100, 3048)

\* _draw_flight, info_parts: typecode, [registration], FLnnn, each when truthy.
InfoParts(typecode, registration, has_altitude, altitude) ==
    (IF typecode # "" THEN <<[part |-> "typecode", text |-> typecode]>> ELSE <<>>)
    \o (IF registration # ""
        THEN <<[part |-> "registration", text |-> registration]>> ELSE <<>>)
    \o (IF has_altitude /\ altitude # 0
        THEN <<[part |-> "FL", text |-> Format03d(FlightLevel(altitude))]>>
        ELSE <<>>)

Typecodes == {"", "B738"}
Registrations == {"", "VH-VZA"}

\* _draw_flight: the text rows painted, each with the y coordinate of its top
\* and the size of its font: the placeholder when there is no flight, else
\* the callsign, the distance and, when info_parts is not empty, the info line.
FlightRows(present, info_parts) ==
    LET region == REGIONS.flight
        y == region.y + 10
    IN IF ~present
       THEN <<[text |-> "placeholder", y |-> region.y + 40, size |-> 20]>>
       ELSE <<[text |-> "callsign", y |-> y, size |-> 28],
              [text |-> "distance", y |-> y + 5, size |-> 22]>>
            \o (IF info_parts # <<>>
                THEN <<[text |-> "info", y |-> y + 40, size |-> 18]>>
                ELSE <<>>)

\* _draw_flight(flight) for a flight in range, as far as the info line goes.
\* The painters keep nothing from one call to the next: a behaviour follows
\* one call.
draw_flight_with(typecode, registration, has_altitude, altitude) ==
    /\ draw_log' = [op |-> "_draw_flight",
                    arg |-> <<typecode, registration, has_altitude, altitude>>,
                    lines |-> InfoParts(typecode, registration, has_altitude, altitude),
                    rows |-> FlightRows(TRUE,
                                InfoParts(typecode, registration, has_altitude, altitude))]
    /\ UNCHANGED <<now, started, artVars, epd, refreshVars, artHist, histVars>>
    /\ UNCHANGED <<loop_log, image, pixels, scan, px_log, runVars, fetch_log>>

\* _draw_flight(None): the placeholder line.
draw_flight_none ==
    /\ draw_log = NoDrawing
    /\ draw_log' = [op |-> "_draw_flight", arg |-> <<"", "", FALSE, 0>>, lines |-> <<>>,
                    rows |-> FlightRows(FALSE, <<>>)]
    /\ UNCHANGED <<now, started, artVars, epd, refreshVars, artHist, histVars>>
    /\ UNCHANGED <<loop_log, image, pixels, scan, px_log, runVars, fetch_log>>

draw_flight ==
    /\ draw_log = NoDrawing
    /\ \E typecode \in Typecodes, registration \in Registrations,
          has_altitude \in BOOLEAN, altitude \in Altitudes :
          draw_flight_with(typecode, registration, has_altitude, altitude)

\* The special_alerts dicts _draw_status can get: any of the three keys may be
\* missing, and a list holds up to MaxAlerts aircraft.
MaxAlerts == 2
StatusArgs ==
    UNION {[keys -> 0..MaxAlerts] : keys \in SUBSET AlertKeys}

\* special_alerts.get(key), as a truth value.
HasAlert(dict, key) == key \in DOMAIN dict /\ dict[key] > 0

\* _draw_status: the alert lines painted, each with its text, the count shown
\* in it (0: none) and its y offset in the region.
AlertLines(dict) ==
    (IF HasAlert(dict, "emergency") THEN <<[text |-> "EMERGENCY", count |-> 0]>> ELSE <<>>)
    \o (IF HasAlert(dict, "military")
        THEN <<[text |-> "MIL", count |-> dict["military"]]>> ELSE <<>>)
    \o (IF HasAlert(dict, "vip") THEN <<[text |-> "VIP", count |-> 0]>> ELSE <<>>)
DrawStatus_AllLines(dict) ==
    LET alerts == AlertLines(dict)
    IN [i \in 1..Len(alerts) |->
           [text |-> alerts[i].text, count |-> alerts[i].count, y |-> 5 + 22 * (i - 1)]]
DrawStatus(dict) ==
    LET alerts == AlertLines(dict)
        shown == IF Len(alerts) > 2 THEN 2 ELSE Len(alerts)
    IN [i \in 1..shown |->
           [text |-> alerts[i].text, count |-> alerts[i].count, y |-> 5 + 22 * (i - 1)]]

draw_status_with(dict) ==
    /\ draw_log' = [op |-> "_draw_status", arg |-> dict, lines |-> DrawStatus(dict),
                    rows |-> <<>>]
    /\ UNCHANGED <<now, started, artVars, epd, refreshVars, artHist, histVars>>
    /\ UNCHANGED <<loop_log, image, pixels, scan, px_log, runVars, fetch_log>>

draw_status ==
    /\ draw_log = NoDrawing
    /\ \E dict \in StatusArgs : draw_status_with(dict)

\* A string is the sequence of its character codes; Text(n) is a string of n
\* characters that differ from each other and from the full stop.
FullStop == 46
Ellipsis == <<FullStop, FullStop, FullStop>>
Text(n) == [i \in 1..n |-> 100 + i]
MaxText == 62
Texts == {Text(n) : n \in 0..MaxText}

\* track[:max_len - 3] + "..." when len(track) > max_len.
Truncate_KeepsBudget(text, max_len) ==
    IF Len(text) > max_len THEN SubSeq(text, 1, max_len) \o Ellipsis ELSE text
Truncate(text, max_len) ==
    IF Len(text) > max_len THEN SubSeq(text, 1, max_len - 3) \o Ellipsis ELSE text

\* _draw_now_playing, "Draw track info": the two text lines, the track after
\* a two-character note mark; thumbnail says whether the art was pasted
\* (art_width > 0).
NowPlayingLines(artist, track, thumbnail) ==
    LET max_len == IF thumbnail THEN 50 ELSE 60
    IN IF artist # <<>> /\ track # <<>>
       THEN <<[line |-> "track", mark |-> 2, y |-> 8, text |-> Truncate(track, max_len)],
              [line |-> "artist", mark |-> 0, y |-> 30, text |-> Truncate(artist, max_len)]>>
       ELSE <<>>

\* _draw_music_mode, "Draw track and artist info below art".
MusicLines(artist, track) ==
    <<[line |-> "track", mark |-> 0, y |-> 0, text |-> Truncate(track, 35)],
      [line |-> "artist", mark |-> 0, y |-> 30, text |-> Truncate(artist, 40)]>>

draw_now_playing_with(artist, track, thumbnail) ==
    /\ draw_log' = [op |-> "_draw_now_playing", arg |-> <<artist, track, thumbnail>>,
                    lines |-> NowPlayingLines(artist, track, thumbnail), rows |-> <<>>]
    /\ UNCHANGED <<now, started, artVars, epd, refreshVars, artHist, histVars>>
    /\ UNCHANGED <<loop_log, image, pixels, scan, px_log, runVars, fetch_log>>

draw_now_playing ==
    /\ draw_log = NoDrawing
    /\ \E artist \in Texts, track \in Texts, thumbnail \in BOOLEAN :
          draw_now_playing_with(artist, track, thumbnail)

\* _draw_music_mode(now_playing, now), dithered being what get_dithered_art
\* hands back when it is asked: whether it returned True, the text it cut and
\* everything it put into the buffer, in order (the art, the two text lines,
\* the mini clock), each with its top row and its size.
DrawMusicMode_ClockBeforeArt(np, dithered, artist, track) ==
    LET art_size == music_mode_size
        art_y == REGIONS.music_mode.y + 10
        info_y == art_y + art_size + 15
        clock == [text |-> "clock_mini", y |-> REGIONS.clock_mini.y, size |-> 20]
    IN IF ~np.playing \/ np.albumArt = EmptyUrl
       THEN [returned |-> FALSE, lines |-> <<>>, rows |-> <<>>]
       ELSE IF dithered = Absent
       THEN [returned |-> FALSE, lines |-> <<>>, rows |-> <<clock>>]
       ELSE [returned |-> TRUE, lines |-> MusicLines(artist, track),
             rows |-> <<clock,
                        [text |-> "art", y |-> art_y, size |-> dithered.size],
                        [text |-> "track", y |-> info_y, size |-> 24],
                        [text |-> "artist", y |-> info_y + 30, size |-> 18]>>]
DrawMusicMode(np, dithered, artist, track) ==
    LET art_size == music_mode_size
        art_y == REGIONS.music_mode.y + 10
        info_y == art_y + art_size + 15
    IN IF ~np.playing
       THEN [returned |-> FALSE, lines |-> <<>>, rows |-> <<>>]
       ELSE IF np.albumArt = EmptyUrl
       THEN [returned |-> FALSE, lines |-> <<>>, rows |-> <<>>]
       ELSE IF dithered = Absent
       THEN [returned |-> FALSE, lines |-> <<>>, rows |-> <<>>]
       ELSE [returned |-> TRUE, lines |-> MusicLines(artist, track),
             rows |-> <<[text |-> "art", y |-> art_y, size |-> dithered.size],
                        [text |-> "track", y |-> info_y, size |-> 24],
                        [text |-> "artist", y |-> info_y + 30, size |-> 18],
                        [text |-> "clock_mini", y |-> REGIONS.clock_mini.y,
                         size |-> 20]>>]

\* What get_dithered_art(album_art_url, music_mode_size) can hand back.
LargeArts == {Absent} \cup {Variant("a1", "floyd", music_mode_size)}

draw_music_mode_with(np, dithered, artist, track) ==
    /\ \E r \in {DrawMusicMode(np, dithered, artist, track)} :
          draw_log' = [op |-> "_draw_music_mode",
                       arg |-> <<artist, track, r.returned, np.playing, np.albumArt,
                                 dithered>>,
                       lines |-> r.lines, rows |-> r.rows]
    /\ UNCHANGED <<now, started, artVars, epd, refreshVars, artHist, histVars>>
    /\ UNCHANGED <<loop_log, image, pixels, scan, px_log, runVars, fetch_log>>

draw_music_mode ==
    /\ draw_log = NoDrawing
    /\ \E np \in OneUrlPlayings, dithered \in LargeArts, artist \in Texts, track \in Texts :
          draw_music_mode_with(np, dithered, artist, track)

NextDraw ==
    draw_flight_none \/ draw_flight \/ draw_status \/ draw_now_playing \/ draw_music_mode

SpecDraw == Init /\ [][NextDraw]_vars

\* C15 as claimed: for a present, non-zero altitude the info line ends with
\* "FL" and round(altitude / 30.48) in at least 3 zero-padded digits.
C15_FlightLevelRounded ==
    (draw_log.op = "_draw_flight" /\ draw_log.arg[3] /\ draw_log.arg[4] # 0)
    => LET last == draw_log.lines[Len(draw_log.lines)]
       IN /\ last.part = "FL"
          /\ last.text = Format03d(FlightLevel_Rounded(draw_log.arg[4]))

\* The priority of an alert line: emergency, then military, then VIP.
Rank(text) == CASE text = "EMERGENCY" -> 1 [] text = "MIL" -> 2 [] text = "VIP" -> 3
CategoryOf(text) ==
    CASE text = "EMERGENCY" -> "emergency" [] text = "MIL" -> "military" [] text = "VIP" -> "vip"
NonEmpty(dict) == {key \in AlertKeys : HasAlert(dict, key)}

\* C20: _draw_status paints at most 2 lines, one under the other, for
\* non-empty categories only, in the order emergency, military (with the
\* length of its list), VIP, never skipping a non-empty category of higher
\* priority than one it paints; with all three non-empty the VIP line is
\* left out, and with none non-empty nothing is painted.
C20_TwoLinesByPriority ==
    draw_log.op = "_draw_status"
    => LET dict == draw_log.arg
           lines == draw_log.lines
           painted == {CategoryOf(lines[i].text) : i \in DOMAIN lines}
       IN /\ Len(lines) = (IF Cardinality(NonEmpty(dict)) > 2
                           THEN 2 ELSE Cardinality(NonEmpty(dict)))
          /\ painted \subseteq NonEmpty(dict)
          /\ \A i \in DOMAIN lines :
                /\ i > 1 => Rank(lines[i - 1].text) < Rank(lines[i].text)
                /\ lines[i].y = 5 + 22 * (i - 1)
                /\ lines[i].count
                     = (IF lines[i].text = "MIL" THEN dict["military"] ELSE 0)
                /\ \A key \in NonEmpty(dict) \ painted :
                      Rank(lines[i].text)
                        < Rank(CHOOSE t \in {"EMERGENCY", "MIL", "VIP"} : CategoryOf(t) = key)
          /\ NonEmpty(dict) = AlertKeys => "vip" \notin painted
          /\ NonEmpty(dict) = {} => lines = <<>>

\* All three categories held aircraft and the VIP line was left out.
C20_Witness ==
    /\ draw_log.op = "_draw_status"
    /\ NonEmpty(draw_log.arg) = AlertKeys
    /\ draw_log.arg["military"] = 2
    /\ Len(draw_log.lines) = 2
    /\ draw_log.lines[2].text = "MIL"

----------------------------------------------------------------------------
(* Dithering: AlbumArtManager._apply_dithering *)

\* A grayscale image: its size and its pixels row by row; pixel (x, y) is
\* px[At(img, x, y)].
At(img, x, y) == y * img.width + x + 1
XOf(img, i) == (i - 1) % img.width
YOf(img, i) == (i - 1) \div img.width

BAYER_MATRIX_4x4 ==
    <<<<0, 8, 2, 10>>,
      <<12, 4, 14, 6>>,
      <<3, 11, 1, 9>>,
      <<15, 7, 13, 5>>>>

\* max(0, min(255, v))
Clamp_Unbounded(v) == v
Clamp(v) == IF v < 0 THEN 0 ELSE IF v > 255 THEN 255 ELSE v

\* new_pixel = 255 if old_pixel > 127 else 0
Quantize(v) == IF v > 127 THEN 255 ELSE 0

\* _dither_ordered: pixel > threshold_map[y % 4][x % 4], the threshold being
\* ((BAYER_MATRIX_4x4[y][x] + 1) / 17) * 255; the comparison is made here on
\* both sides times 17.
OrderedPixel_AtThreshold(v, x, y) ==
    IF v * 17 >= (BAYER_MATRIX_4x4[(y % 4) + 1][(x % 4) + 1] + 1) * 255 THEN 255 ELSE 0
OrderedPixel(v, x, y) ==
    IF v * 17 > (BAYER_MATRIX_4x4[(y % 4) + 1][(x % 4) + 1] + 1) * 255 THEN 255 ELSE 0

\* The neighbours a Floyd-Steinberg step writes, in the order of the code,
\* each with its weight in sixteenths.
FloydTargets(img, x, y) ==
    (IF x + 1 < img.width THEN <<[dx |-> 1, dy |-> 0, weight |-> 7]>> ELSE <<>>)
    \o (IF y + 1 < img.height
        THEN (IF x > 0 THEN <<[dx |-> -1, dy |-> 1, weight |-> 3]>> ELSE <<>>)
             \o <<[dx |-> 0, dy |-> 1, weight |-> 5]>>
             \o (IF x + 1 < img.width THEN <<[dx |-> 1, dy |-> 1, weight |-> 1]>> ELSE <<>>)
        ELSE <<>>)

\* The neighbours an Atkinson step writes, each getting the same share.
AtkinsonTargets(img, x, y) ==
    (IF x + 1 < img.width THEN <<[dx |-> 1, dy |-> 0, weight |-> 1]>> ELSE <<>>)
    \o (IF x + 2 < img.width THEN <<[dx |-> 2, dy |-> 0, weight |-> 1]>> ELSE <<>>)
    \o (IF y + 1 < img.height
        THEN (IF x > 0 THEN <<[dx |-> -1, dy |-> 1, weight |-> 1]>> ELSE <<>>)
             \o <<[dx |-> 0, dy |-> 1, weight |-> 1]>>
             \o (IF x + 1 < img.width THEN <<[dx |-> 1, dy |-> 1, weight |-> 1]>> ELSE <<>>)
        ELSE <<>>)
    \o (IF y + 2 < img.height THEN <<[dx |-> 0, dy |-> 2, weight |-> 1]>> ELSE <<>>)

\* max(0, min(255, int(pixels[..] + error * weight / 16)))
FloydSpread_Rounded(v, error, weight) ==
    Clamp((16 * v + error * weight + 8) \div 16)
FloydSpread(v, error, weight) == Clamp(TruncDiv(16 * v + error * weight, 16))

\* error = (old_pixel - new_pixel) // 8; max(0, min(255, pixels[..] + error))
AtkinsonSpread(v, error, weight) == Clamp(v + (error \div 8))

\* One pass of the inner loop at (x, y): the pixel is quantized (or compared
\* with its threshold) and the error is written to the neighbours.  The
\* result is the image and the record of what was written.
Spread(algorithm, v, error, weight) ==
    IF algorithm = "atkinson"
    THEN AtkinsonSpread(v, error, weight)
    ELSE FloydSpread(v, error, weight)

DitherStep(algorithm, img, x, y) ==
    LET old == img.px[At(img, x, y)]
        new == IF algorithm = "ordered" THEN OrderedPixel(old, x, y) ELSE Quantize(old)
        error == old - new
        targets == CASE algorithm = "ordered" -> <<>>
                     [] algorithm = "atkinson" -> AtkinsonTargets(img, x, y)
                     [] OTHER -> FloydTargets(img, x, y)
        hit(i) == {k \in DOMAIN targets :
                     At(img, x + targets[k].dx, y + targets[k].dy) = i}
        weightAt(i) == targets[CHOOSE k \in hit(i) : TRUE].weight
    IN [img |-> [img EXCEPT !.px =
                    [i \in DOMAIN img.px |->
                        IF i = At(img, x, y) THEN new
                        ELSE IF hit(i) # {}
                             THEN Spread(algorithm, img.px[i], error, weightAt(i))
                             ELSE img.px[i]]],
        log |-> [x |-> x, y |-> y, old |-> old, new |-> new,
                 added |-> [k \in DOMAIN targets |->
                              LET i == At(img, x + targets[k].dx, y + targets[k].dy)
                              IN [dx |-> targets[k].dx, dy |-> targets[k].dy,
                                  weight |-> targets[k].weight,
                                  before |-> img.px[i],
                                  after |-> Spread(algorithm, img.px[i], error,
                                                   targets[k].weight)]]]]

\* img.convert('1'): every pixel becomes 0 or 255, a pixel above 127 becoming
\* 255 (the conversion diffuses its own error, which is 0 for pixels that are
\* 0 or 255 already).
Convert1(img) == [img EXCEPT !.px = [i \in DOMAIN img.px |-> Quantize(img.px[i])]]

\* The images dithered: gradients (seed + slope_x * x + slope_y * y) mod 256,
\* one pixel or MaxSide pixels wide and high.
MaxSide == 5
Seeds == {0, 15, 100, 127, 128, 254, 255}
Slopes == {0, 1, 37, 171}
Gradient(width, height, seed, sx, sy) ==
    [width |-> width, height |-> height,
     px |-> [i \in 1..(width * height) |->
               (seed + sx * ((i - 1) % width) + sy * ((i - 1) \div width)) % 256]]
Images ==
    {Gradient(w, h, seed, sx, sy) :
        w \in {1, MaxSide}, h \in {1, MaxSide}, seed \in Seeds, sx \in Slopes, sy \in Slopes}

\* The settings name the algorithm (thumbnail mode, art shown).
fetch_settings_algorithm ==
    \E resp \in {r \in SettingsResponses :
                   r.ok /\ r.displayMode = "thumbnail" /\ r.showAlbumArt} :
       fetch_settings_with(resp)

\* _apply_dithering(image, algorithm), up to the loop: img = image.copy().
apply_dithering_with(img) ==
    /\ started
    /\ scan = 0
    /\ image' = img
    /\ pixels' = img
    /\ scan' = 1
    /\ px_log' = NoPixelStep
    /\ UNCHANGED <<now, started, artVars, epd, refreshVars, artHist, histVars>>
    /\ UNCHANGED <<loop_log, draw_log, runVars, fetch_log>>

apply_dithering ==
    /\ scan = 0
    /\ \E img \in Images : apply_dithering_with(img)

\* One pass of the inner loop, at the raster position scan.
dither_pixel ==
    /\ scan \in 1..Len(pixels.px)
    /\ LET r == DitherStep(dither_algorithm, pixels, XOf(pixels, scan), YOf(pixels, scan))
       IN /\ pixels' = r.img
          /\ px_log' = r.log
    /\ scan' = scan + 1
    /\ UNCHANGED <<now, started, artVars, epd, refreshVars, artHist, histVars>>
    /\ UNCHANGED <<loop_log, draw_log, image, runVars, fetch_log>>

\* return img.convert('1')
dither_return ==
    /\ scan > 0
    /\ scan = Len(pixels.px) + 1
    /\ pixels' = Convert1(pixels)
    /\ scan' = scan + 1
    /\ UNCHANGED <<now, started, artVars, epd, refreshVars, artHist, histVars>>
    /\ UNCHANGED <<loop_log, draw_log, image, px_log, runVars, fetch_log>>

NextDither == fetch_settings_algorithm \/ apply_dithering \/ dither_pixel \/ dither_return

SpecDither == Init /\ [][NextDither]_vars

\* The dither function has returned its image.
Returned == scan > 0 /\ scan = Len(pixels.px) + 2


\* The pixels the running dither function has been through.
Processed == {i \in DOMAIN pixels.px : i < scan}

\* The 16 thresholds 15, 30, ..., 240 as the Bayer index matrix places them.
THRESHOLDS ==
    <<<<15, 135, 45, 165>>,
      <<195, 75, 225, 105>>,
      <<60, 180, 30, 150>>,
      <<240, 120, 210, 90>>>>

\* C16: ordered dithering sets output[x, y] to 255 if input[x, y] is above
\* the threshold at row y mod 4, column x mod 4 of the threshold table and to
\* 0 otherwise; a step writes no pixel but its own, so the pixels not yet
\* reached still hold the input.
C16_OrderedIsPerPixel ==
    (dither_algorithm = "ordered" /\ scan > 0)
    => /\ \A i \in Processed :
             pixels.px[i]
               = (IF image.px[i] > THRESHOLDS[(YOf(image, i) % 4) + 1][(XOf(image, i) % 4) + 1]
                  THEN 255 ELSE 0)
       /\ \A i \in DOMAIN pixels.px \ Processed : pixels.px[i] = image.px[i]
       /\ px_log.added = <<>>

\* Ordered dithering returned an image of MaxSide by MaxSide pixels with a
\* pixel that sat exactly on its threshold and pixels of both colours.
C16_Witness ==
    /\ Returned
    /\ dither_algorithm = "ordered"
    /\ image.width = MaxSide /\ image.height = MaxSide
    /\ image.px[1] = THRESHOLDS[1][1]
    /\ \E i, j \in DOMAIN pixels.px : pixels.px[i] = 0 /\ pixels.px[j] = 255

\* The last Floyd-Steinberg step quantized its pixel at 127 and wrote to the
\* neighbours right (7), below-left (3), below (5) and below-right (1) that
\* lie inside the image.
FloydStepShape ==
    /\ px_log.new = (IF px_log.old > 127 THEN 255 ELSE 0)
    /\ {<<px_log.added[k].dx, px_log.added[k].dy, px_log.added[k].weight>> :
           k \in DOMAIN px_log.added}
         = {t \in {<<1, 0, 7>>, <<-1, 1, 3>>, <<0, 1, 5>>, <<1, 1, 1>>} :
              /\ px_log.x + t[1] \in 0..(image.width - 1)
              /\ px_log.y + t[2] \in 0..(image.height - 1)}

\* C17 as claimed: each neighbour receives error * weight / 16, truncated to
\* an integer and clamped to [0,255], added to its current intensity.
C17_FloydClampsTheFraction ==
    (dither_algorithm = "floyd" /\ scan > 1)
    => /\ FloydStepShape
       /\ \A k \in DOMAIN px_log.added :
             px_log.added[k].after
               = px_log.added[k].before
                 + Clamp(TruncDiv((px_log.old - px_log.new) * px_log.added[k].weight, 16))

\* C17 as amended: raster scan; quantize at 127; signed error = original -
\* quantized; each in-bounds neighbour right, below-left, below, below-right
\* becomes its current intensity plus error * 7/16, 3/16, 5/16, 1/16, the sum
\* (not the fraction) truncated to an integer and then clamped to [0,255]; no
\* other pixel changes.
C17_FloydClampsTheSum ==
    /\ [](  (dither_algorithm = "floyd" /\ scan > 1)
            => /\ FloydStepShape
               /\ scan <= Len(pixels.px) + 1
                  => (px_log.x = XOf(image, scan - 1) /\ px_log.y = YOf(image, scan - 1))
               /\ \A k \in DOMAIN px_log.added :
                     LET sum16 == 16 * px_log.added[k].before
                                  + (px_log.old - px_log.new) * px_log.added[k].weight
                         after == px_log.added[k].after
                     IN /\ sum16 < 0 => after = 0
                        /\ sum16 >= 16 * 256 => after = 255
                        /\ (sum16 >= 0 /\ sum16 < 16 * 256)
                           => (16 * after <= sum16 /\ sum16 < 16 * after + 16))
    /\ [][(dither_algorithm = "floyd" /\ scan > 0 /\ scan' = scan + 1
           /\ scan <= Len(pixels.px))
          => /\ px_log'.old = pixels.px[scan]
             /\ \A i \in DOMAIN pixels.px :
                   LET hit == {k \in DOMAIN px_log'.added :
                                 At(pixels, px_log'.x + px_log'.added[k].dx,
                                    px_log'.y + px_log'.added[k].dy) = i}
                   IN pixels'.px[i]
                        = (IF i = scan THEN px_log'.new
                           ELSE IF hit # {}
                                THEN px_log'.added[CHOOSE k \in hit : TRUE].after
                                ELSE pixels.px[i])
             /\ \A k \in DOMAIN px_log'.added :
                   px_log'.added[k].before
                     = pixels.px[At(pixels, px_log'.x + px_log'.added[k].dx,
                                    px_log'.y + px_log'.added[k].dy)]]_vars

\* A Floyd-Steinberg step with a negative error wrote all four neighbours,
\* one of them lowered by a truncated fraction without being clamped.
C17_Witness ==
    /\ dither_algorithm = "floyd"
    /\ scan > 1
    /\ px_log.old > 127 /\ px_log.old < 255
    /\ Len(px_log.added) = 4
    /\ \E k \in DOMAIN px_log.added :
          /\ px_log.added[k].after > 0
          /\ px_log.added[k].after < px_log.added[k].before
          /\ ((px_log.old - px_log.new) * px_log.added[k].weight) % 16 # 0

RECURSIVE SumAdded(_)
SumAdded(added) ==
    IF added = <<>> THEN 0
    ELSE (Head(added).after - Head(added).before) + SumAdded(Tail(added))

Abs(n) == IF n < 0 THEN -n ELSE n

\* C18 as claimed: when an Atkinson step writes six in-bounds neighbours and
\* clamps none of them, the total added is (e * 6) integer-divided by 8 for
\* e = original - quantized, and its magnitude is at most that of e.
C18_AtkinsonBudget ==
    (/\ dither_algorithm = "atkinson"
     /\ scan > 1
     /\ Len(px_log.added) = 6
     /\ \A k \in DOMAIN px_log.added :
           px_log.added[k].after > 0 /\ px_log.added[k].after < 255)
    => /\ SumAdded(px_log.added) = ((px_log.old - px_log.new) * 6) \div 8
       /\ Abs(SumAdded(px_log.added)) <= Abs(px_log.old - px_log.new)

\* C19: for each algorithm the input image is never written, the working
\* image has the input's width and height, every intensity written while the
\* error is diffused stays within [0,255], and every pixel the function has
\* been through, hence every pixel of the output, is 0 or 255.
C19_DitherFrame ==
    /\ [](scan > 0
          => /\ pixels.width = image.width /\ pixels.height = image.height
             /\ DOMAIN pixels.px = DOMAIN image.px
             /\ Len(image.px) = image.width * image.height
             /\ \A i \in DOMAIN pixels.px : pixels.px[i] \in 0..255
             /\ \A k \in DOMAIN px_log.added : px_log.added[k].after \in 0..255
             /\ \A i \in Processed : pixels.px[i] \in {0, 255})
    /\ [][scan > 0 => image' = image]_vars

\* Atkinson dithering returned a MaxSide by MaxSide image that differs from
\* its input, which held intensities other than 0 and 255.
C19_Witness ==
    /\ Returned
    /\ dither_algorithm = "atkinson"
    /\ image.width = MaxSide /\ image.height = MaxSide
    /\ \E i \in DOMAIN image.px : image.px[i] \notin {0, 255}
    /\ pixels.px # image.px

----------------------------------------------------------------------------
(* VectorClockDisplay.run: data refresh, error handling and shutdown *)

FLIGHT_CHECK_INTERVAL == 15
WEATHER_UPDATE_INTERVAL == 600
\* time.sleep(5) in the exception handler of the loop.
BACKOFF == 5

\* The clock readings of run(): whole minutes and the backoff after them, the
\* first reading at which the weather is due again, and a whole minute after
\* the anti-ghosting interval has elapsed.
MaxRunMinutes == 1
RunInstants ==
    {StartTime + 60 * m + b : m \in 0..MaxRunMinutes, b \in {0, BACKOFF}}
    \cup {StartTime + WEATHER_UPDATE_INTERVAL, StartTime + FULL_REFRESH_INTERVAL + 60}

\* The readings at which a sleep that ends at reading t or later is over: the
\* first MaxSkip + 1 of them.
MaxSkip == 1
WakeUps(t) ==
    {u \in RunInstants :
        u >= t /\ Cardinality({v \in RunInstants : t <= v /\ v < u}) <= MaxSkip}

\* What fetch_json returns for an endpoint: None (transport error, non-200
\* status or undecodable body: ok is FALSE) or the decoded body.
Weathers == {"w1"}
WeatherPolls == [ok : {FALSE}, value : {None}] \cup [ok : {TRUE}, value : Weathers]

\* The flights endpoint: no answer, an answer whose closest aircraft is the
\* flight (NoFlight: no states), or states a row of which is not a sequence of
\* numbers (len(state) or _haversine raises).
RunFlights == {NoFlight, [present |-> TRUE, callsign |-> "QFA12", distance |-> "12.3"]}
FlightPolls ==
    [status : {"fail"}, flight : {NoFlight}]
    \cup [status : {"ok"}, flight : RunFlights]
    \cup [status : {"malformed"}, flight : {NoFlight}]

\* The now-playing endpoint: no answer, or a track without art playing.
PlayingPolls ==
    [ok : {FALSE}, value : {NotPlaying}]
    \cup [ok : {TRUE}, value : {[playing |-> TRUE, albumArt |-> EmptyUrl]}]

\* The alerts endpoint: no answer, or an aircraft in the emergency list.
AlertPolls == {resp \in AlertResponses : ~Truthy(resp) \/ AnyAlert(resp)}

Polls == [weather : WeatherPolls, flight : FlightPolls, alerts : AlertPolls,
          playing : PlayingPolls]

\* DataFetcher.get_weather: the body replaces self.weather; self.weather is
\* returned either way.
GetWeather(cached, poll) == IF poll.ok THEN poll.value ELSE cached

\* DataFetcher.get_flights: the closest aircraft of the answer, else None.
GetFlights(poll) == IF poll.status = "ok" THEN poll.flight ELSE NoFlight

\* DataFetcher.get_now_playing: the body when it says playing, else None.
GetNowPlaying(poll) == IF poll.ok /\ poll.value.playing THEN poll.value ELSE NotPlaying

\* _update_weather at clock reading t.
UpdateWeather(a, cached, t, poll) ==
    IF t - a.last_weather_update >= WEATHER_UPDATE_INTERVAL
    THEN [app |-> [a EXCEPT !.weather = GetWeather(cached, poll),
                            !.last_weather_update = t],
          fetcher_weather |-> GetWeather(cached, poll),
          polled |-> {"weather"},
          failed |-> IF poll.ok THEN {} ELSE {"weather"}]
    ELSE [app |-> a, fetcher_weather |-> cached, polled |-> {}, failed |-> {}]

\* _update_flight at clock reading t: the three polls, in order; an exception
\* in get_flights leaves the method before anything is assigned.
UpdateFlight(a, t, polls) ==
    IF t - a.last_flight_check >= FLIGHT_CHECK_INTERVAL
    THEN IF polls.flight.status = "malformed"
         THEN [app |-> a, raised |-> TRUE, polled |-> {"flight"}, failed |-> {}]
         ELSE [app |-> [a EXCEPT !.flight = GetFlights(polls.flight),
                                 !.special_alerts = GetSpecialAlerts(polls.alerts),
                                 !.now_playing = GetNowPlaying(polls.playing),
                                 !.last_flight_check = t],
               raised |-> FALSE,
               polled |-> {"flight", "special_alerts", "now_playing"},
               failed |-> (IF polls.flight.status = "fail" THEN {"flight"} ELSE {})
                          \cup (IF Truthy(polls.alerts) THEN {} ELSE {"special_alerts"})
                          \cup (IF polls.playing.ok THEN {} ELSE {"now_playing"})]
    ELSE [app |-> a, raised |-> FALSE, polled |-> {}, failed |-> {}]

\* The arguments of the renderer call that takes data: render_full gets all
\* four values, partial_update_flight the flight and the alerts.
CallArgs(calls, held) ==
    IF \E i \in DOMAIN calls : calls[i] = "render_full"
    THEN [call |-> "render_full",
          names |-> {"weather", "flight", "special_alerts", "now_playing"},
          weather |-> held.weather, flight |-> held.flight,
          special_alerts |-> held.special_alerts, now_playing |-> held.now_playing]
    ELSE IF \E i \in DOMAIN calls : calls[i] = "partial_update_flight"
         THEN [NoArgs EXCEPT !.call = "partial_update_flight",
                             !.names = {"flight", "special_alerts"},
                             !.flight = held.flight,
                             !.special_alerts = held.special_alerts]
         ELSE NoArgs

\* (An iteration that decides and renders before it refreshes the data.)
RunIteration_RendersFirst(sink, a, cached, s, t, polls, push1, push2) ==
    LET w == UpdateWeather(a, cached, t, polls.weather)
        u == UpdateFlight(w.app, t, polls)
        b == LoopBody(sink, s, t, t, a.flight, a.special_alerts, push1, push2)
    IN [app |-> u.app, fetcher_weather |-> w.fetcher_weather, state |-> b.state,
        calls |-> <<"needs_full_refresh">> \o b.calls
                  \o <<"_update_weather", "_update_flight">>,
        raised_in |-> b.raised_in,
        polled |-> w.polled \cup u.polled, failed |-> w.failed \cup u.failed,
        args |-> CallArgs(b.calls, a)]

\* The try block of the loop at clock reading t: _update_weather,
\* _update_flight, needs_full_refresh(), then render_full or the two partial
\* updates with the values the application holds.  An exception leaves the
\* block where it is raised.
RunIteration(sink, a, cached, s, t, polls, push1, push2) ==
    LET w == UpdateWeather(a, cached, t, polls.weather)
        u == UpdateFlight(w.app, t, polls)
        b == LoopBody(sink, s, t, t, u.app.flight, u.app.special_alerts, push1, push2)
    IN IF u.raised
       THEN [app |-> u.app, fetcher_weather |-> w.fetcher_weather, state |-> s,
             calls |-> <<"_update_weather", "_update_flight">>,
             raised_in |-> "_update_flight",
             polled |-> w.polled \cup u.polled, failed |-> w.failed \cup u.failed,
             args |-> NoArgs]
       ELSE [app |-> u.app, fetcher_weather |-> w.fetcher_weather, state |-> b.state,
             calls |-> <<"_update_weather", "_update_flight", "needs_full_refresh">>
                       \o b.calls,
             raised_in |-> b.raised_in,
             polled |-> w.polled \cup u.polled, failed |-> w.failed \cup u.failed,
             args |-> CallArgs(b.calls, u.app)]

\* run() up to the loop: the initial data fetch and the initial render_full,
\* none of it inside a try block.
RunStartup(sink, a, cached, s, t, polls, push) ==
    LET w == UpdateWeather(a, cached, t, polls.weather)
        u == UpdateFlight(w.app, t, polls)
        r == RenderFull(sink, s, t, t, u.app.flight, FALSE, push)
    IN IF u.raised
       THEN [app |-> u.app, fetcher_weather |-> w.fetcher_weather, state |-> s,
             calls |-> <<"_update_weather", "_update_flight">>,
             raised_in |-> "_update_flight",
             polled |-> w.polled \cup u.polled, failed |-> w.failed \cup u.failed,
             args |-> NoArgs]
       ELSE [app |-> u.app, fetcher_weather |-> w.fetcher_weather, state |-> r.state,
             calls |-> <<"_update_weather", "_update_flight", "render_full">>,
             raised_in |-> IF r.raised THEN "render_full" ELSE None,
             polled |-> w.polled \cup u.polled, failed |-> w.failed \cup u.failed,
             args |-> CallArgs(<<"render_full">>, u.app)]

\* while self.running.is_set()
LoopCondition_Always(flag) == TRUE
LoopCondition(flag) == flag

\* The history entry of a startup or an iteration at the clock reading now;
\* weather_fetch_at and flight_fetch_at are the readings at which get_weather
\* and get_flights were last called (0: not yet).
RunLog(step, i) ==
    [run_log EXCEPT !.step = step, !.calls = i.calls, !.raised_in = i.raised_in,
                    !.polled = i.polled, !.failed = i.failed,
                    !.args = i.args, !.slept = 0,
                    !.weather_fetch_at = IF "weather" \in i.polled THEN now ELSE @,
                    !.flight_fetch_at = IF "flight" \in i.polled THEN now ELSE @]

run_startup_with(polls, push) ==
    \E i \in {RunStartup(epd, app, fetcher_weather, Refresh, now, polls, push)} :
       /\ started
       /\ run_pc = "start"
       /\ app' = i.app
       /\ fetcher_weather' = i.fetcher_weather
       /\ SetRefresh(i.state)
       /\ run_log' = RunLog("startup", i)
       /\ run_pc' = IF i.raised_in # None THEN "crashed" ELSE "wait"
       /\ UNCHANGED <<now, started, artVars, epd, artHist, histVars, running>>
       /\ UNCHANGED <<loop_log, image, pixels, scan, px_log, draw_log, fetch_log>>

run_startup ==
    /\ run_pc = "start"
    /\ \E polls \in Polls, push \in PushOutcomes : run_startup_with(polls, push)

\* _wait_for_minute, the sleep at the end of an iteration (at least one
\* second) and the sleep of the exception handler.
run_sleep ==
    /\ run_pc \in {"wait", "sleep", "backoff"}
    /\ \E t \in WakeUps(now + (IF run_pc = "backoff" THEN BACKOFF ELSE 1)) : now' = t
    /\ run_log' = [run_log EXCEPT !.step = run_pc,
                                  !.slept = IF run_pc = "backoff" THEN BACKOFF ELSE 0]
    /\ run_pc' = "check"
    /\ UNCHANGED <<started, artVars, epd, refreshVars, artHist, histVars>>
    /\ UNCHANGED <<loop_log, image, pixels, scan, px_log, draw_log, fetch_log>>
    /\ UNCHANGED <<app, fetcher_weather, running>>

\* The loop condition is read.
run_check ==
    /\ run_pc = "check"
    /\ run_pc' = IF LoopCondition(running) THEN "iterate" ELSE "cleanup"
    /\ run_log' = [run_log EXCEPT !.step = "check"]
    /\ UNCHANGED <<now, started, artVars, epd, refreshVars, artHist, histVars>>
    /\ UNCHANGED <<loop_log, image, pixels, scan, px_log, draw_log, fetch_log>>
    /\ UNCHANGED <<app, fetcher_weather, running>>

run_iteration_with(polls, push1, push2) ==
    \E i \in {RunIteration(epd, app, fetcher_weather, Refresh, now, polls, push1, push2)} :
       /\ run_pc = "iterate"
       /\ app' = i.app
       /\ fetcher_weather' = i.fetcher_weather
       /\ SetRefresh(i.state)
       /\ run_log' = [RunLog("iteration", i) EXCEPT
                         !.late = IF running THEN run_log.late
                                  ELSE IF run_log.late < 2 THEN run_log.late + 1 ELSE 2]
       /\ run_pc' = IF i.raised_in # None THEN "backoff" ELSE "sleep"
       /\ UNCHANGED <<now, started, artVars, epd, artHist, histVars, running>>
       /\ UNCHANGED <<loop_log, image, pixels, scan, px_log, draw_log, fetch_log>>

run_iteration ==
    /\ run_pc = "iterate"
    /\ \E polls \in Polls, push1 \in PushOutcomes, push2 \in PushOutcomes :
          run_iteration_with(polls, push1, push2)

\* renderer.cleanup(): epd.sleep() when there is a driver; an exception of
\* epd.sleep() is caught and logged.
run_cleanup ==
    /\ run_pc = "cleanup"
    /\ run_pc' = "stopped"
    /\ run_log' = [run_log EXCEPT
                      !.step = "cleanup",
                      !.cleanups = run_log.cleanups + 1,
                      !.sink_sleeps = run_log.sink_sleeps + (IF epd # "none" THEN 1 ELSE 0)]
    /\ UNCHANGED <<now, started, artVars, epd, refreshVars, artHist, histVars>>
    /\ UNCHANGED <<loop_log, image, pixels, scan, px_log, draw_log, fetch_log>>
    /\ UNCHANGED <<app, fetcher_weather, running>>

\* _signal_handler: SIGINT or SIGTERM arrives while run() is running.
signal_handler ==
    /\ run_pc \notin {"stopped", "crashed"}
    /\ running' = FALSE
    /\ UNCHANGED <<now, started, artVars, epd, refreshVars, artHist, histVars>>
    /\ UNCHANGED <<loop_log, image, pixels, scan, px_log, draw_log, fetch_log>>
    /\ UNCHANGED <<app, fetcher_weather, run_pc, run_log>>

RunStep == run_startup \/ run_sleep \/ run_check \/ run_iteration \/ run_cleanup

NextRun == fetch_settings_fails \/ RunStep \/ signal_handler

\* run() on a driver with partial refresh, or without hardware.
InitRun == Init /\ epd # "full_only"

SpecRun == InitRun /\ [][NextRun]_vars

\* The same run() with a server that answers the weather poll, does not
\* answer the alerts and now-playing polls, and answers the flights poll with
\* a flight or with malformed states; both partial pushes of an iteration end
\* alike.
PlainPolls ==
    {polls \in Polls :
        /\ polls.weather.ok /\ ~Truthy(polls.alerts) /\ ~polls.playing.ok
        /\ polls.flight.status # "fail" /\ polls.flight.flight.present = (polls.flight.status = "ok")}

run_startup_plain ==
    /\ run_pc = "start"
    /\ \E polls \in PlainPolls, push \in PushOutcomes : run_startup_with(polls, push)

run_iteration_plain ==
    /\ run_pc = "iterate"
    /\ \E polls \in PlainPolls, push \in PushOutcomes : run_iteration_with(polls, push, push)

PlainStep ==
    run_startup_plain \/ run_sleep \/ run_check \/ run_iteration_plain \/ run_cleanup

NextPlain == fetch_settings_fails \/ PlainStep \/ signal_handler

\* run() is scheduled: it takes its next step whenever it has one.
SpecRunFair ==
    InitRun /\ [][NextPlain]_vars /\ WF_vars(PlainStep)

\* run() is inside its while loop.
InLoop == run_pc \in {"check", "iterate", "sleep", "backoff"}

\* An exception raised inside an iteration is caught at the loop boundary:
\* the handler sleeps BACKOFF seconds and the loop condition is read again.
CaughtAtLoopBoundary ==
    /\ []((run_log.step = "iteration" /\ run_pc \in {"sleep", "backoff"})
          => (run_pc = "backoff" <=> run_log.raised_in # None))
    /\ [][(run_pc = "backoff" /\ run_pc' # run_pc)
          => /\ run_pc' = "check"
             /\ run_log'.slept = BACKOFF
             /\ now' >= now + BACKOFF]_vars
    /\ [][(run_pc = "check" /\ run_pc' # run_pc /\ running) => run_pc' = "iterate"]_vars

\* C21 as claimed: an exception raised by any step of an iteration is caught
\* at the loop boundary and followed by the fixed backoff and a new
\* iteration, and run() never ends unless the shutdown flag has been cleared.
C21_OnlyShutdownEndsRun ==
    /\ CaughtAtLoopBoundary
    /\ [](run_pc \in {"stopped", "crashed"} => ~running)

\* The startup of run() is over: it waits for the minute or is in its loop.
Launched == run_pc = "wait" \/ InLoop

LastInstant == CHOOSE t \in RunInstants : \A u \in RunInstants : u <= t

\* C22: once the signal handler has cleared the flag, the iteration in
\* progress runs its whole try block (or up to the exception it raises) and
\* sleeps, the next reading of the loop condition leaves the loop, so at most
\* that one iteration, with its fetches and pushes, runs after the signal;
\* cleanup is called exactly once, after the loop, and calls the driver's
\* sleep() once when there is a driver; and run() returns (the clock of the
\* model has no reading after LastInstant for a sleep to end at).
C22_CooperativeShutdown ==
    /\ [](run_log.late <= 1)
    /\ [][(~running /\ run_pc = "iterate" /\ run_pc' # run_pc)
          => /\ run_log'.step = "iteration"
             /\ run_pc' = (IF run_log'.raised_in # None THEN "backoff" ELSE "sleep")
             /\ run_log'.raised_in = None
                => /\ Len(run_log'.calls) >= 4
                   /\ run_log'.calls[3] = "needs_full_refresh"]_vars
    /\ [][(~running /\ run_pc = "check" /\ run_pc' # run_pc) => run_pc' = "cleanup"]_vars
    /\ [][run_pc' = "cleanup" => (~running /\ run_pc \in {"check", "cleanup"})]_vars
    /\ [](run_pc = "stopped"
          => /\ ~running
             /\ run_log.cleanups = 1
             /\ run_log.sink_sleeps = (IF epd # "none" THEN 1 ELSE 0))
    /\ [](run_pc # "stopped" => (run_log.cleanups = 0 /\ run_log.sink_sleeps = 0))
    /\ [][run_pc = "stopped" => UNCHANGED <<refreshVars, runVars>>]_vars
    /\ (~running /\ Launched /\ now < LastInstant) ~> (run_pc = "stopped")

\* The signal arrived while an iteration was in progress; the iteration ran,
\* the loop ended and the driver was put to sleep.
C22_Witness ==
    /\ run_pc = "stopped"
    /\ run_log.late = 1
    /\ run_log.cleanups = 1
    /\ run_log.sink_sleeps = 1
    /\ app.last_flight_check > StartTime

RendererCalls == {"render_full", "partial_update_clock", "partial_update_flight"}

\* C23: in every iteration _update_weather and _update_flight have returned
\* before needs_full_refresh() is evaluated, every renderer call comes after
\* that, and render_full receives the weather, flight, alerts and now-playing
\* values, partial_update_flight the flight and alerts, that the application
\* holds after the refresh.
C23_RefreshBeforeDecision ==
    run_log.step = "iteration"
    => LET calls == run_log.calls
           made == {calls[k] : k \in DOMAIN calls}
       IN /\ Len(calls) >= 2 /\ calls[1] = "_update_weather" /\ calls[2] = "_update_flight"
          /\ \A k \in DOMAIN calls :
                /\ calls[k] = "needs_full_refresh" => k = 3
                /\ calls[k] \in RendererCalls => (k > 3 /\ calls[3] = "needs_full_refresh")
          /\ \A name \in run_log.args.names : run_log.args[name] = app[name]
          /\ "render_full" \in made
             => /\ run_log.args.call = "render_full"
                /\ run_log.args.names = {"weather", "flight", "special_alerts", "now_playing"}
          /\ "partial_update_flight" \in made
             => /\ run_log.args.call = "partial_update_flight"
                /\ run_log.args.names = {"flight", "special_alerts"}

\* An iteration polled every endpoint, found the anti-ghosting interval
\* elapsed and rendered in full what it had just fetched.
C23_Witness ==
    /\ run_log.step = "iteration"
    /\ run_log.args.call = "render_full"
    /\ run_log.polled = {"weather", "flight", "special_alerts", "now_playing"}
    /\ run_log.failed = {}
    /\ run_log.args.flight.present
    /\ run_log.args.now_playing.playing
    /\ run_log.args.weather = "w1"
    /\ app.last_flight_check = now

\* C24 as claimed: when the poll of the weather, of the closest flight or of
\* the now-playing track fails, the application holds the same value of that
\* item after the refresh as before it, and passes that value to the renderer.
C24_FailedPollKeepsValue ==
    [][(run_pc \in {"start", "iterate"} /\ run_pc' # run_pc)
       => /\ "weather" \in run_log'.failed => app'.weather = app.weather
          /\ "flight" \in run_log'.failed => app'.flight = app.flight
          /\ "now_playing" \in run_log'.failed => app'.now_playing = app.now_playing
          /\ \A name \in run_log'.args.names \cap run_log'.failed
                              \cap {"weather", "flight", "now_playing"} :
                run_log'.args[name] = app[name]]_vars

----------------------------------------------------------------------------
(* The text painters: claims C25 and C28, under SpecDraw *)

\* What a budget of max_len characters makes of a string.
WithinBudget(painted, original, max_len) ==
    IF Len(original) > max_len
    THEN /\ Len(painted) = max_len
         /\ SubSeq(painted, 1, max_len - 3) = SubSeq(original, 1, max_len - 3)
         /\ SubSeq(painted, max_len - 2, max_len) = <<FullStop, FullStop, FullStop>>
    ELSE painted = original

\* C25: _draw_now_playing paints the track (after its note mark) and the
\* artist cut to a budget of 50 characters when the thumbnail was pasted and
\* 60 otherwise: a longer string becomes its first budget - 3 characters and
\* "...", a string within the budget is painted as it is, and no painted
\* string is longer than the budget; _draw_music_mode does the same with 35
\* characters for the track and 40 for the artist, each on its own.
C25_TruncationBudgets ==
    /\ (draw_log.op = "_draw_now_playing" /\ draw_log.lines # <<>>)
       => LET budget == IF draw_log.arg[3] THEN 50 ELSE 60
          IN /\ Len(draw_log.lines) = 2
             /\ draw_log.lines[1].line = "track" /\ draw_log.lines[2].line = "artist"
             /\ WithinBudget(draw_log.lines[1].text, draw_log.arg[2], budget)
             /\ WithinBudget(draw_log.lines[2].text, draw_log.arg[1], budget)
             /\ \A i \in 1..2 : Len(draw_log.lines[i].text) <= budget
    /\ (draw_log.op = "_draw_music_mode" /\ draw_log.arg[3])
       => /\ Len(draw_log.lines) = 2
          /\ draw_log.lines[1].line = "track" /\ draw_log.lines[2].line = "artist"
          /\ WithinBudget(draw_log.lines[1].text, draw_log.arg[2], 35)
          /\ WithinBudget(draw_log.lines[2].text, draw_log.arg[1], 40)
          /\ Len(draw_log.lines[1].text) <= 35
          /\ Len(draw_log.lines[2].text) <= 40

\* Beside a thumbnail, a track of 51 characters was cut to 50 and an artist
\* of 50 characters was painted whole.
C25_Witness ==
    /\ draw_log.op = "_draw_now_playing"
    /\ draw_log.arg[3]
    /\ Len(draw_log.arg[2]) = 51
    /\ Len(draw_log.arg[1]) = 50
    /\ Len(draw_log.lines[1].text) = 50
    /\ draw_log.lines[1].text # draw_log.arg[2]
    /\ draw_log.lines[2].text = draw_log.arg[1]

\* C28 as claimed: every text row _draw_flight paints, the placeholder as
\* well as the rows of a present flight, starts inside the flight region and
\* its top y coordinate plus its font size does not exceed region.y +
\* region.height, so that it does not reach the now_playing region below.
C28_FlightTextInsideRegion ==
    draw_log.op = "_draw_flight"
    => \A i \in DOMAIN draw_log.rows :
          /\ draw_log.rows[i].y >= REGIONS.flight.y
          /\ draw_log.rows[i].y + draw_log.rows[i].size
               <= REGIONS.flight.y + REGIONS.flight.height
          /\ draw_log.rows[i].y + draw_log.rows[i].size <= REGIONS.now_playing.y

(* render_full and the partial updates after it: claims C26, C27, C29, C30 *)

\* The last renderer operation was a render_full that returned.
AfterRenderFull == op_log.op = "render_full" /\ ~op_log.raised

\* C26 as claimed: a render_full that returns leaves current_minute at the
\* minute read at its start and current_flight at its flight argument; a
\* partial_update_clock that follows it in the same wall-clock minute, and a
\* partial_update_flight that follows it with a flight of the same callsign
\* and an alerts argument without any aircraft, draw nothing and push nothing.
C26_NoOpAfterRenderFull ==
    [][/\ op_log'.op = "render_full"
          => \A flight \in Flights, np \in NowPlayings, push \in PushOutcomes,
                t1 \in PushEnds, o \in ArtOutcomes :
                (render_full_with(flight, np, o[1], o[2], push, t1) /\ ~op_log'.raised)
                => /\ current_minute' = Minute(now)
                   /\ current_flight' = flight
       /\ (AfterRenderFull /\ StepOf("partial_update_clock")
            /\ now \div 60 = minute_sync \div 60)
          => op_log'.drawn = <<>> /\ op_log'.pushes = <<>>
       /\ (AfterRenderFull /\ StepOf("partial_update_flight"))
          => \A flight \in Flights, alerts \in AlertArgs, push \in PushOutcomes :
                (/\ CallsignOf(flight) = CallsignOf(current_flight)
                 /\ ~AnyAlert(alerts)
                 /\ partial_update_flight_with(flight, alerts, push))
                => op_log'.drawn = <<>> /\ op_log'.pushes = <<>>]_vars

\* The pixels a region declares as its own, x <= px < x + width and
\* y <= py < y + height, as a box; the buffer; the pixels two boxes share.
OwnPixels(region) ==
    <<region.x, region.y, region.x + region.width - 1, region.y + region.height - 1>>
Surface == OwnPixels(REGIONS.full)
Max2(a, b) == IF a >= b THEN a ELSE b
Min2(a, b) == IF a <= b THEN a ELSE b
Meet(a, b) == <<Max2(a[1], b[1]), Max2(a[2], b[2]), Min2(a[3], b[3]), Min2(a[4], b[4])>>
RegionPainters == {"clock", "date", "weather", "flight", "status", "now_playing"}

\* C27 as claimed: the clear of each region painter an operation calls
\* whitens, on the buffer, exactly the pixels of its own region and no pixel
\* of another painter's region; only render_full and clear() whiten the
\* whole surface.
C27_ClearConfined ==
    \A i \in DOMAIN op_log.drawn :
       LET painter == op_log.drawn[i] IN
       /\ painter \in RegionPainters
          => /\ Meet(ClearedBy(painter), Surface) = OwnPixels(REGIONS[painter])
             /\ \A other \in RegionPainters \ {painter} :
                   ~Intersects(ClearedBy(painter), OwnPixels(REGIONS[other]))
       /\ painter = "full" => op_log.op \in {"render_full", "clear"}

\* The painters that put fetched weather, now-playing text or album art into
\* the buffer.
ContentPainters == {"weather", "now_playing", "music_mode"}

\* C29: partial_update_clock calls no painter but _draw_clock and _draw_date,
\* partial_update_flight none but _draw_flight and _draw_status; the painters
\* of weather, now-playing and music-mode content are called by render_full
\* only, and a partial update fetches and pastes no album art.
C29_PartialUpdateFrame ==
    /\ [](/\ op_log.op = "partial_update_clock"
             => op_log.drawn \in {<<>>, <<"clock", "date">>}
          /\ op_log.op = "partial_update_flight"
             => op_log.drawn \in {<<>>, <<"flight", "status">>}
          /\ (\E i \in DOMAIN op_log.drawn : op_log.drawn[i] \in ContentPainters)
             => op_log.op = "render_full")
    /\ [][(StepOf("partial_update_clock") \/ StepOf("partial_update_flight"))
          => UNCHANGED <<cached_url, cached_art, cached_dithered, art_log, art_calls>>]_vars

\* While the music layout is shown, a partial_update_flight has repainted the
\* flight and status regions and pushed them.
C29_Witness ==
    /\ music_mode_active
    /\ op_log.op = "partial_update_flight"
    /\ op_log.drawn = <<"flight", "status">>
    /\ op_log.pushes # <<>>

\* C30: _draw_music_mode returns False exactly when nothing is playing, the
\* record has no art URL or no dithered variant was obtained, and then it has
\* put nothing into the buffer; when it returns True it has pasted the large
\* variant first, at its place under the top of the music_mode region, and
\* then painted track, artist and mini clock.
C30_MusicModeAllOrNothing ==
    draw_log.op = "_draw_music_mode"
    => LET returned == draw_log.arg[3]
           playing == draw_log.arg[4]
           url == draw_log.arg[5]
           dithered == draw_log.arg[6]
       IN /\ returned <=> (playing /\ url # EmptyUrl /\ dithered # Absent)
          /\ ~returned => draw_log.rows = <<>> /\ draw_log.lines = <<>>
          /\ returned
             => /\ Len(draw_log.rows) = 4
                /\ draw_log.rows[1] = [text |-> "art", y |-> ArtBox[2],
                                       size |-> music_mode_size]
                /\ \A i \in 2..4 : draw_log.rows[i].text # "art"

\* A track was playing and had an art URL, but no variant could be obtained:
\* False was returned.
C30_Witness ==
    /\ draw_log.op = "_draw_music_mode"
    /\ draw_log.arg[4]
    /\ draw_log.arg[5] # EmptyUrl
    /\ draw_log.arg[6] = Absent
    /\ ~draw_log.arg[3]

----------------------------------------------------------------------------
(* DataFetcher.get_flights: the closest aircraft of the answer *)

\* Coordinates are in ten-thousandths of a degree, distances in metres.
\* DataFetcher.location: the default, or a location set by get_location on
\* the Greenwich meridian.
Sydney == [latitude |-> -339117, longitude |-> 1511552]
Greenwich == [latitude |-> 514800, longitude |-> 0]
Locations == {Sydney, Greenwich}

\* Where the aircraft of an answer are, as <<latitude, longitude>>: two places
\* near Sydney, two near Greenwich (one of them on the meridian), one on the
\* equator.
Positions ==
    {<<-339000, 1512000>>, <<-342000, 1509000>>, <<515000, 0>>, <<515000, 2000>>,
     <<0, 1512000>>}

\* _haversine(lat1, lon1, lat2, lon2) with R = 6371, for the locations and
\* positions above: the value the function computes, in metres.
Haversine(lat1, lon1, lat2, lon2) ==
    LET from == <<lat1, lon1>>
        to == <<lat2, lon2>>
    IN IF from = <<-339117, 1511552>>
       THEN CASE to = <<-339000, 1512000>> -> 4334
              [] to = <<-342000, 1509000>> -> 39754
              [] to = <<515000, 0>> -> 16986940
              [] to = <<515000, 2000>> -> 16974811
              [] to = <<0, 1512000>> -> 3770812
       ELSE CASE to = <<-339000, 1512000>> -> 16989749
              [] to = <<-342000, 1509000>> -> 16996567
              [] to = <<515000, 0>> -> 2224
              [] to = <<515000, 2000>> -> 14025
              [] to = <<0, 1512000>> -> 13685443

\* A number of a state row, or null.
Null == [null |-> TRUE, v |-> 0]
Number(v) == [null |-> FALSE, v |-> v]
\* `if x` for a number or None.
NumberIsTrue(c) == ~c.null /\ c.v # 0

\* The rows of data['states']: a row too short to hold a position, a row
\* whose longitude is null, and rows of two aircraft at the positions.
Rows ==
    {[len |-> 5, icao24 |-> "short", longitude |-> Null, latitude |-> Null],
     [len |-> 17, icao24 |-> "nopos", longitude |-> Null, latitude |-> Number(-339000)]}
    \cup {[len |-> 17, icao24 |-> id, longitude |-> Number(pos[2]),
           latitude |-> Number(pos[1])] : id \in {"a", "b"}, pos \in Positions}

MaxStates == 3
StatesLists == UNION {[1..n -> Rows] : n \in 0..MaxStates}

\* fetch_json of the flights endpoint: None, or a body with its states (the
\* empty list also for a body without states).
FlightsResponses == {[ok |-> FALSE, states |-> <<>>]} \cup [ok : {TRUE}, states : StatesLists]

\* The dict get_flights makes of a row, distance in metres.
ClosestOf(state, dist) ==
    [icao24 |-> state.icao24, latitude |-> state.latitude.v,
     longitude |-> state.longitude.v, distance |-> dist]

\* The loop of get_flights from row i on; closest is <<>> for None, and then
\* min_dist is float('inf').
RECURSIVE FindClosest(_, _, _, _)
FindClosest(loc, states, i, closest) ==
    IF i > Len(states)
    THEN closest
    ELSE LET state == states[i] IN
         IF state.len >= 7 /\ NumberIsTrue(state.longitude) /\ NumberIsTrue(state.latitude)
         THEN LET dist == Haversine(loc.latitude, loc.longitude,
                                    state.latitude.v, state.longitude.v)
              IN IF closest = <<>> \/ dist < closest[1].distance
                 THEN FindClosest(loc, states, i + 1, <<ClosestOf(state, dist)>>)
                 ELSE FindClosest(loc, states, i + 1, closest)
         ELSE FindClosest(loc, states, i + 1, closest)

\* get_flights: <<>> is None.
GetClosestFlight(loc, resp) ==
    IF resp.ok /\ resp.states # <<>>
    THEN FindClosest(loc, resp.states, 1, <<>>)
    ELSE <<>>

get_flights ==
    /\ fetch_log = NoFetch
    /\ \E loc \in Locations, resp \in FlightsResponses :
          fetch_log' = [op |-> "get_flights", location |-> loc, states |-> resp.states,
                        ok |-> resp.ok, result |-> GetClosestFlight(loc, resp)]
    /\ UNCHANGED <<now, started, artVars, epd, refreshVars, artHist, histVars>>
    /\ UNCHANGED <<loop_log, image, pixels, scan, px_log, draw_log, runVars>>

NextFetch == get_flights

SpecFetch == Init /\ [][NextFetch]_vars

\* A row carries a position: it is long enough and neither coordinate is null.
Carries(state) == state.len >= 7 /\ ~state.longitude.null /\ ~state.latitude.null
DistanceOf(loc, state) ==
    Haversine(loc.latitude, loc.longitude, state.latitude.v, state.longitude.v)

\* C31 as claimed: get_flights returns None exactly when the fetch failed or
\* no row of the answer carries a position; otherwise it returns the first of
\* the rows carrying a position whose distance to the location is the
\* smallest, rows with a latitude or longitude of 0 included.
C31_ClosestOfPositioned ==
    fetch_log.op = "get_flights"
    => LET loc == fetch_log.location
           states == fetch_log.states
           carrying == {i \in DOMAIN states : Carries(states[i])}
       IN IF ~fetch_log.ok \/ carrying = {}
          THEN fetch_log.result = <<>>
          ELSE \E i \in carrying :
                  /\ \A j \in carrying :
                        /\ DistanceOf(loc, states[i]) <= DistanceOf(loc, states[j])
                        /\ j < i => DistanceOf(loc, states[i]) < DistanceOf(loc, states[j])
                  /\ fetch_log.result = <<ClosestOf(states[i], DistanceOf(loc, states[i]))>>

----------------------------------------------------------------------------
(* The poll cadence of run(): claim C32, under SpecRun *)

\* C32 as claimed: whenever the startup or an iteration of run() calls
\* get_weather, at least WEATHER_UPDATE_INTERVAL seconds have passed since the
\* previous call of get_weather, and whenever it calls get_flights, at least
\* FLIGHT_CHECK_INTERVAL seconds have passed since the previous call of
\* get_flights; and a call advances its timer to the current reading whether
\* or not the fetch succeeded.
C32_PollCadence ==
    [][(run_pc \in {"start", "iterate"} /\ run_pc' # run_pc)
       => /\ "weather" \in run_log'.polled
             => /\ (run_log.weather_fetch_at = 0
                      \/ now - run_log.weather_fetch_at >= WEATHER_UPDATE_INTERVAL)
                /\ app'.last_weather_update = now
          /\ "flight" \in run_log'.polled
             => /\ (run_log.flight_fetch_at = 0
                      \/ now - run_log.flight_fetch_at >= FLIGHT_CHECK_INTERVAL)
                /\ app'.last_flight_check = now]_vars

====
